---- MODULE Spec2Model ----
(***************************************************************************)
(* A model of the format-preserving substitution engine of                 *)
(* docx-modify-agent: DocxProcessor (src/src/docx_processor.py) and the    *)
(* template expansion of ResumeProcessor (src/src/resume_processor.py).    *)
(*                                                                         *)
(* A text is a sequence of one-character strings.  A run is a record       *)
(* [text, formatting]; a paragraph is a record [kind, runs, style, layout, *)
(* rows]; a table is a block of kind "tbl" whose rows are sequences of     *)
(* cells, each cell a sequence of paragraphs.  The document body is the    *)
(* sequence of its child blocks, in document order.                        *)
(***************************************************************************)
EXTENDS Integers, Sequences, FiniteSets, TLC

VARIABLES document, original_styles, resume_data, call

vars == <<document, original_styles, resume_data, call>>

(***************************************************************************)
(* Values of the Python runtime that the model needs.                      *)
(***************************************************************************)
None == "None"

NoDocument == [loaded |-> FALSE, body |-> <<>>, styles |-> {}]

NoCall == [op |-> "none"]

(* A value of the data tree: a string, None, a list or a dict (a sequence  *)
(* of [k, v] entries with distinct keys, in insertion order).              *)
PyNone == [t |-> "none", s |-> <<>>, l |-> <<>>, d |-> <<>>]

PyStr(text) == [t |-> "str", s |-> text, l |-> <<>>, d |-> <<>>]

PyList(items) == [t |-> "list", s |-> <<>>, l |-> items, d |-> <<>>]

PyDict(entries) == [t |-> "dict", s |-> <<>>, l |-> <<>>, d |-> entries]

(***************************************************************************)
(* Bounds of the explored inputs.                                          *)
(***************************************************************************)
MaxRuns == 2

MaxRunLen == 2

MaxSearchLen == 2

MaxReplaceLen == 2

MaxBlocks == 3

MaxItems == 3

MaxTokenLen == 1

MaxListLen == 1

MaxSegments == 3

MaxTemplateBlocks == 2

MaxCalls == 3

(***************************************************************************)
(* Sequence helpers.                                                       *)
(***************************************************************************)
SeqsUpTo(S, n) == UNION {[1..k -> S] : k \in 0..n}

Slice(s, i, j) == IF i > j THEN <<>> ELSE SubSeq(s, i, j)

RECURSIVE Flatten(_)
Flatten(ss) == IF ss = <<>> THEN <<>> ELSE Head(ss) \o Flatten(Tail(ss))

RECURSIVE SumSeq(_)
SumSeq(s) == IF s = <<>> THEN 0 ELSE Head(s) + SumSeq(Tail(s))

Reverse(s) == [i \in 1..Len(s) |-> s[Len(s) + 1 - i]]

(***************************************************************************)
(* str.lower() on the characters of the model's alphabet.                  *)
(***************************************************************************)
LowerChar(c) ==
    CASE c = "A" -> "a"
      [] c = "B" -> "b"
      [] c = "C" -> "c"
      [] c = "D" -> "d"
      [] c = "E" -> "e"
      [] c = "F" -> "f"
      [] c = "G" -> "g"
      [] c = "H" -> "h"
      [] c = "I" -> "i"
      [] c = "J" -> "j"
      [] c = "K" -> "k"
      [] c = "L" -> "l"
      [] c = "M" -> "m"
      [] c = "N" -> "n"
      [] c = "O" -> "o"
      [] c = "P" -> "p"
      [] c = "Q" -> "q"
      [] c = "R" -> "r"
      [] c = "S" -> "s"
      [] c = "T" -> "t"
      [] c = "U" -> "u"
      [] c = "V" -> "v"
      [] c = "W" -> "w"
      [] c = "X" -> "x"
      [] c = "Y" -> "y"
      [] c = "Z" -> "z"
      [] OTHER -> c

Lower(t) == [i \in 1..Len(t) |-> LowerChar(t[i])]

(* Python's `sub in text`: true for the empty sub. *)
Contains(sub, text) ==
    \E i \in 1..(Len(text) - Len(sub) + 1) : Slice(text, i, i + Len(sub) - 1) = sub

(* does the literal pattern match the text at position i (1-based)? *)
MatchAt(pattern, text, i, case_sensitive) ==
    /\ i + Len(pattern) - 1 <= Len(text)
    /\ LET piece == Slice(text, i, i + Len(pattern) - 1)
       IN  IF case_sensitive THEN piece = pattern
           ELSE Lower(piece) = Lower(pattern)

(***************************************************************************)
(* re.finditer(re.escape(search_text), full_text, flags): the start        *)
(* positions (1-based) of the matches, left to right.  A non-empty pattern *)
(* matches leftmost and non-overlapping; the empty pattern matches once at *)
(* every position, the end of the text included.                           *)
(***************************************************************************)
RECURSIVE FindIterFrom(_, _, _, _)
FindIterFrom(pattern, text, i, case_sensitive) ==
    IF i > Len(text) + 1 THEN <<>>
    ELSE IF MatchAt(pattern, text, i, case_sensitive)
         THEN <<i>> \o FindIterFrom(pattern, text,
                                    IF Len(pattern) = 0 THEN i + 1 ELSE i + Len(pattern),
                                    case_sensitive)
         ELSE FindIterFrom(pattern, text, i + 1, case_sensitive)

FindIter(pattern, text, case_sensitive) == FindIterFrom(pattern, text, 1, case_sensitive)

(***************************************************************************)
(* Formatting of a run: the six attributes _extract_run_formatting reads.  *)
(***************************************************************************)
DefaultFormatting ==
    [bold |-> None, italic |-> None, underline |-> None,
     font_name |-> None, font_size |-> None, font_color |-> None]

StyledFormatting ==
    [bold |-> "True", italic |-> "False", underline |-> "True",
     font_name |-> "Arial", font_size |-> "Pt(12)", font_color |-> "FF0000"]

Formattings == {DefaultFormatting, StyledFormatting}

(* Python truthiness of an attribute value *)
Truthy(v) == v \notin {None, "", "Pt(0)"}

ExtractRunFormatting(run) ==
    [bold       |-> run.formatting.bold,
     italic     |-> run.formatting.italic,
     underline  |-> run.formatting.underline,
     font_name  |-> run.formatting.font_name,
     font_size  |-> run.formatting.font_size,
     font_color |-> IF Truthy(run.formatting.font_color)
                    THEN run.formatting.font_color ELSE None]

(* _apply_run_formatting on a run: an attribute is written only when the  *)
(* source value passes the test of its `if`.                               *)
ApplyRunFormatting(run, formatting) ==
    [run EXCEPT !.formatting =
        [bold       |-> IF formatting.bold # None THEN formatting.bold ELSE @.bold,
         italic     |-> IF formatting.italic # None THEN formatting.italic ELSE @.italic,
         underline  |-> IF formatting.underline # None THEN formatting.underline
                        ELSE @.underline,
         font_name  |-> IF Truthy(formatting.font_name) THEN formatting.font_name
                        ELSE @.font_name,
         font_size  |-> IF Truthy(formatting.font_size) THEN formatting.font_size
                        ELSE @.font_size,
         font_color |-> IF Truthy(formatting.font_color) THEN formatting.font_color
                        ELSE @.font_color]]

(***************************************************************************)
(* Paragraphs, tables and the document body.                               *)
(***************************************************************************)
NoLayout ==
    [left_indent |-> None, first_line_indent |-> None,
     space_after |-> None, line_spacing |-> None]

(* The text a run holds once python-docx has stored a string in it: a      *)
(* carriage return, like a line feed, becomes a line break, and a line     *)
(* break reads back as a line feed.                                        *)
RunText(text) == [i \in 1..Len(text) |-> IF text[i] = "\r" THEN "\n" ELSE text[i]]

(* paragraph.add_run(text) makes a run of default formatting *)
NewRun(text) == [text |-> RunText(text), formatting |-> DefaultFormatting]

Paragraph(runs) ==
    [kind |-> "p", runs |-> runs, style |-> "Normal", layout |-> NoLayout,
     rows |-> <<>>, grid_span |-> <<>>]

(* A table: rows[r][c] is the paragraph sequence of the c-th cell element  *)
(* of row r and grid_span[r][c] the number of grid columns that cell       *)
(* spans (1 unless the cell is merged horizontally).                       *)
MergedTable(rows, grid_span) ==
    [kind |-> "tbl", runs |-> <<>>, style |-> None, layout |-> NoLayout,
     rows |-> rows, grid_span |-> grid_span]

Table(rows) ==
    MergedTable(rows, [r \in 1..Len(rows) |-> [c \in 1..Len(rows[r]) |-> 1]])

(* paragraph.text *)
ParagraphText(paragraph) ==
    Flatten([i \in 1..Len(paragraph.runs) |-> paragraph.runs[i].text])

(* paragraph.clear(): the runs go, the paragraph properties stay *)
ClearParagraph(paragraph) == [paragraph EXCEPT !.runs = <<>>]

(* paragraph.add_run(text) *)
AddRun(paragraph, run) == [paragraph EXCEPT !.runs = Append(@, run)]

(***************************************************************************)
(* _replace_with_formatting_preservation                                   *)
(***************************************************************************)
CharToRunMap(paragraph) ==
    Flatten([i \in 1..Len(paragraph.runs) |->
        [j \in 1..Len(paragraph.runs[i].text) |->
            [char |-> paragraph.runs[i].text[j],
             formatting |-> ExtractRunFormatting(paragraph.runs[i])]]])

(* variant: the inserted characters get no formatting *)
NewChars_Unformatted(replace_text, first_char_formatting) ==
    [i \in 1..Len(replace_text) |->
        [char |-> replace_text[i], formatting |-> DefaultFormatting]]

NewChars(replace_text, first_char_formatting) ==
    [i \in 1..Len(replace_text) |->
        [char |-> replace_text[i], formatting |-> first_char_formatting]]

(* the loop over reversed(matches): starts holds the remaining match      *)
(* starts, rightmost first; reading the map past its end is an IndexError  *)
RECURSIVE SpliceMatches(_, _, _, _, _)
SpliceMatches(char_to_run_map, starts, search_len, replace_text, made) ==
    IF starts = <<>>
    THEN [map |-> char_to_run_map, count |-> made, raised |-> FALSE]
    ELSE LET start_pos == Head(starts)
             end_pos   == start_pos + search_len
         IN  IF start_pos > Len(char_to_run_map)
             THEN [map |-> char_to_run_map, count |-> made, raised |-> TRUE]
             ELSE SpliceMatches(
                    Slice(char_to_run_map, 1, start_pos - 1)
                      \o NewChars(replace_text, char_to_run_map[start_pos].formatting)
                      \o Slice(char_to_run_map, end_pos, Len(char_to_run_map)),
                    Tail(starts), search_len, replace_text, made + 1)

(* the grouping loop of _rebuild_paragraph_with_formatting *)
(* variant: the text accumulated when the map ends is not added as a run *)
RECURSIVE GroupRuns_NoLastRun(_, _, _, _, _)
GroupRuns_NoLastRun(paragraph, char_to_run_map, i, current_text, current_formatting) ==
    IF i > Len(char_to_run_map)
    THEN paragraph
    ELSE IF char_to_run_map[i].formatting = current_formatting
         THEN GroupRuns_NoLastRun(paragraph, char_to_run_map, i + 1,
                                  Append(current_text, char_to_run_map[i].char),
                                  current_formatting)
         ELSE GroupRuns_NoLastRun(
                IF current_text # <<>>
                THEN AddRun(paragraph,
                            ApplyRunFormatting(NewRun(current_text), current_formatting))
                ELSE paragraph,
                char_to_run_map, i + 1,
                <<char_to_run_map[i].char>>, char_to_run_map[i].formatting)

RECURSIVE GroupRuns(_, _, _, _, _)
GroupRuns(paragraph, char_to_run_map, i, current_text, current_formatting) ==
    IF i > Len(char_to_run_map)
    THEN IF current_text # <<>>
         THEN AddRun(paragraph, ApplyRunFormatting(NewRun(current_text), current_formatting))
         ELSE paragraph
    ELSE IF char_to_run_map[i].formatting = current_formatting
         THEN GroupRuns(paragraph, char_to_run_map, i + 1,
                        Append(current_text, char_to_run_map[i].char), current_formatting)
         ELSE GroupRuns(
                IF current_text # <<>>
                THEN AddRun(paragraph,
                            ApplyRunFormatting(NewRun(current_text), current_formatting))
                ELSE paragraph,
                char_to_run_map, i + 1,
                <<char_to_run_map[i].char>>, char_to_run_map[i].formatting)

(* variant: one run per character, nothing is grouped *)
RebuildParagraph_RunPerChar(paragraph, char_to_run_map) ==
    [ClearParagraph(paragraph) EXCEPT !.runs =
        [i \in 1..Len(char_to_run_map) |->
            ApplyRunFormatting(NewRun(<<char_to_run_map[i].char>>),
                               char_to_run_map[i].formatting)]]

RebuildParagraphWithFormatting(paragraph, char_to_run_map) ==
    IF char_to_run_map = <<>>
    THEN ClearParagraph(paragraph)
    ELSE GroupRuns(ClearParagraph(paragraph), char_to_run_map, 1, <<>>,
                   char_to_run_map[1].formatting)

(* variant: the matches are processed leftmost first *)
ReversedMatches_InOrder(matches) == matches

(* reversed(matches) *)
ReversedMatches(matches) == Reverse(matches)

ReplaceWithFormattingPreservation(paragraph, search_text, replace_text, case_sensitive) ==
    LET char_to_run_map == CharToRunMap(paragraph)
        full_text == [i \in 1..Len(char_to_run_map) |-> char_to_run_map[i].char]
        matches   == FindIter(search_text, full_text, case_sensitive)
    IN  IF matches = <<>>
        THEN [para |-> paragraph, count |-> 0, raised |-> FALSE]
        ELSE LET r == SpliceMatches(char_to_run_map, ReversedMatches(matches),
                                    Len(search_text), replace_text, 0)
             IN  IF r.raised
                 THEN [para |-> paragraph, count |-> 0, raised |-> TRUE]
                 ELSE [para  |-> IF r.count > 0
                                 THEN RebuildParagraphWithFormatting(paragraph, r.map)
                                 ELSE paragraph,
                       count |-> r.count, raised |-> FALSE]

(***************************************************************************)
(* The non-preserving branch of _replace_text_in_paragraph: str.replace,   *)
(* str.count, re.sub and re.findall.                                       *)
(***************************************************************************)
RECURSIVE StrReplace(_, _, _)
StrReplace(text, old, new) ==
    IF old = <<>>
    THEN new \o Flatten([i \in 1..Len(text) |-> <<text[i]>> \o new])
    ELSE IF Len(text) < Len(old) THEN text
    ELSE IF Slice(text, 1, Len(old)) = old
         THEN new \o StrReplace(Slice(text, Len(old) + 1, Len(text)), old, new)
         ELSE <<Head(text)>> \o StrReplace(Tail(text), old, new)

RECURSIVE StrCount(_, _)
StrCount(text, sub) ==
    IF sub = <<>> THEN Len(text) + 1
    ELSE IF Len(text) < Len(sub) THEN 0
    ELSE IF Slice(text, 1, Len(sub)) = sub
         THEN 1 + StrCount(Slice(text, Len(sub) + 1, Len(text)), sub)
         ELSE StrCount(Tail(text), sub)

(* The replacement template of re.sub: a backslash starts an escape.  The  *)
(* result is [ok, text]; ok is FALSE where re raises "bad escape".         *)
RECURSIVE ExpandTemplate(_)
ExpandTemplate(repl) ==
    IF repl = <<>> THEN [ok |-> TRUE, text |-> <<>>]
    ELSE IF Head(repl) # "\\"
         THEN LET rest == ExpandTemplate(Tail(repl))
              IN  [ok |-> rest.ok, text |-> <<Head(repl)>> \o rest.text]
    ELSE IF Len(repl) = 1 THEN [ok |-> FALSE, text |-> <<>>]
    ELSE LET c    == repl[2]
             rest == ExpandTemplate(Slice(repl, 3, Len(repl)))
         IN  CASE c = "\\" -> [ok |-> rest.ok, text |-> <<"\\">> \o rest.text]
               [] c = "n"  -> [ok |-> rest.ok, text |-> <<"\n">> \o rest.text]
               [] c = "a"  -> [ok |-> rest.ok, text |-> <<"BEL">> \o rest.text]
               [] c = "b"  -> [ok |-> rest.ok, text |-> <<"BS">> \o rest.text]
               [] c \in {"A", "B", "E", "H", "M", "N", "e", "h", "m",
                         "1", "2"} -> [ok |-> FALSE, text |-> <<>>]
               [] OTHER -> [ok |-> rest.ok, text |-> <<"\\", c>> \o rest.text]

(* re.sub(re.escape(search_text), replace_text, full_text, re.IGNORECASE) *)
RECURSIVE SubAt(_, _, _, _, _)
SubAt(text, starts, pos, search_len, new) ==
    IF starts = <<>> THEN Slice(text, pos, Len(text))
    ELSE Slice(text, pos, Head(starts) - 1) \o new
           \o SubAt(text, Tail(starts), Head(starts) + search_len, search_len, new)

ReSubIgnoreCase(search_text, replace_text, full_text) ==
    LET template == ExpandTemplate(replace_text)
        matches  == FindIter(search_text, full_text, FALSE)
    IN  IF ~template.ok THEN [ok |-> FALSE, text |-> full_text]
        ELSE [ok |-> TRUE,
              text |-> SubAt(full_text, matches, 1, Len(search_text), template.text)]

(***************************************************************************)
(* _replace_text_in_paragraph: [para, count, raised]                       *)
(***************************************************************************)
(* variant: no test that the search text is in the paragraph, and the     *)
(* plain branch resets the paragraph whether or not its text changed       *)
ReplaceTextInParagraph_AlwaysReset(paragraph, search_text, replace_text, preserve_formatting, case_sensitive) ==
    IF paragraph.runs = <<>>
    THEN [para |-> paragraph, count |-> 0, raised |-> FALSE]
    ELSE IF preserve_formatting
         THEN ReplaceWithFormattingPreservation(paragraph, search_text,
                                                replace_text, case_sensitive)
    ELSE [para   |-> AddRun(ClearParagraph(paragraph),
                            NewRun(StrReplace(ParagraphText(paragraph),
                                              search_text, replace_text))),
          count  |-> StrCount(ParagraphText(paragraph), search_text),
          raised |-> FALSE]

ReplaceTextInParagraph(paragraph, search_text, replace_text, preserve_formatting, case_sensitive) ==
    LET full_text == ParagraphText(paragraph)
        unchanged == [para |-> paragraph, count |-> 0, raised |-> FALSE]
    IN  IF paragraph.runs = <<>> THEN unchanged
        ELSE IF case_sensitive /\ ~Contains(search_text, full_text) THEN unchanged
        ELSE IF ~case_sensitive /\ ~Contains(Lower(search_text), Lower(full_text))
             THEN unchanged
        ELSE IF preserve_formatting
             THEN ReplaceWithFormattingPreservation(paragraph, search_text,
                                                    replace_text, case_sensitive)
        ELSE LET sub == IF case_sensitive
                        THEN [ok |-> TRUE,
                              text |-> StrReplace(full_text, search_text, replace_text)]
                        ELSE ReSubIgnoreCase(search_text, replace_text, full_text)
             IN  IF ~sub.ok THEN [para |-> paragraph, count |-> 0, raised |-> TRUE]
                 ELSE IF sub.text # full_text
                      THEN [para  |-> AddRun(ClearParagraph(paragraph), NewRun(sub.text)),
                            count |-> IF case_sensitive
                                      THEN StrCount(full_text, search_text)
                                      ELSE Len(FindIter(search_text, full_text, FALSE)),
                            raised |-> FALSE]
                      ELSE unchanged

(***************************************************************************)
(* The paragraphs of a document in the order find_and_replace_text visits  *)
(* them: document.paragraphs, then tables -> rows -> cells -> paragraphs.  *)
(* An address is [b, r, c, k]: body index and, in a table, row, cell and   *)
(* paragraph index (r = 0 for a top-level paragraph).                      *)
(***************************************************************************)
DocumentParagraphs(body) ==
    SelectSeq([b \in 1..Len(body) |-> [b |-> b, r |-> 0, c |-> 0, k |-> 0]],
              LAMBDA a : body[a.b].kind = "p")

RECURSIVE Repeat(_, _)
Repeat(s, n) == IF n = 0 THEN <<>> ELSE s \o Repeat(s, n - 1)

(* row.cells: one entry per grid column, so that a cell spanning several   *)
(* grid columns is listed once for each column it spans                    *)
RowCells(table, r) ==
    Flatten([c \in 1..Len(table.rows[r]) |-> Repeat(<<c>>, table.grid_span[r][c])])

TableParagraphs(body) ==
    Flatten([b \in 1..Len(body) |->
        IF body[b].kind # "tbl" THEN <<>>
        ELSE Flatten([r \in 1..Len(body[b].rows) |->
               Flatten([i \in 1..Len(RowCells(body[b], r)) |->
                 [k \in 1..Len(body[b].rows[r][RowCells(body[b], r)[i]]) |->
                    [b |-> b, r |-> r, c |-> RowCells(body[b], r)[i], k |-> k]]])])])

ParagraphAt(body, a) ==
    IF a.r = 0 THEN body[a.b] ELSE body[a.b].rows[a.r][a.c][a.k]

SetParagraphAt(body, a, paragraph) ==
    IF a.r = 0 THEN [body EXCEPT ![a.b] = paragraph]
    ELSE [body EXCEPT ![a.b].rows[a.r][a.c][a.k] = paragraph]

(* the two loops of find_and_replace_text; an exception ends them *)
RECURSIVE ReplaceInParagraphs(_, _, _, _, _, _, _)
ReplaceInParagraphs(body, addrs, search_text, replace_text, preserve_formatting, case_sensitive, replacements_made) ==
    IF addrs = <<>>
    THEN [body |-> body, result |-> replacements_made, error |-> None]
    ELSE LET r == ReplaceTextInParagraph(ParagraphAt(body, Head(addrs)), search_text,
                                         replace_text, preserve_formatting, case_sensitive)
         IN  IF r.raised
             THEN [body |-> body, result |-> -1, error |-> "EditOperationError"]
             ELSE ReplaceInParagraphs(SetParagraphAt(body, Head(addrs), r.para),
                                      Tail(addrs), search_text, replace_text,
                                      preserve_formatting, case_sensitive,
                                      replacements_made + r.count)

FindAndReplaceText(doc, search_text, replace_text, preserve_formatting, case_sensitive) ==
    IF ~doc.loaded
    THEN [body |-> doc.body, result |-> -1, error |-> "EditOperationError"]
    ELSE ReplaceInParagraphs(doc.body, DocumentParagraphs(doc.body) \o TableParagraphs(doc.body),
                             search_text, replace_text, preserve_formatting,
                             case_sensitive, 0)

(***************************************************************************)
(* load_from_buffer and _extract_styles                                    *)
(***************************************************************************)
ExtractStyles(body) ==
    {body[b].style : b \in {i \in 1..Len(body) : body[i].kind = "p" /\ body[i].style # None}}

LoadFromBuffer(bodies, style_sets) ==
    /\ ~document.loaded
    /\ call.op = "none"
    /\ \E body \in bodies, styles \in style_sets :
          /\ document' = [loaded |-> TRUE, body |-> body, styles |-> styles]
          /\ original_styles' = ExtractStyles(body)
    /\ UNCHANGED <<resume_data, call>>

(***************************************************************************)
(* The documents and arguments of the literal-replace runs.                *)
(***************************************************************************)
Chars == {"a", "A"}

Texts(n) == SeqsUpTo(Chars, n)

Runs == {[text |-> t, formatting |-> f] : t \in Texts(MaxRunLen), f \in Formattings}

Paragraphs == {Paragraph(runs) : runs \in SeqsUpTo(Runs, MaxRuns)}

SmallParagraphs ==
    {Paragraph(<<>>)} \cup
    {Paragraph(<<[text |-> t, formatting |-> f]>>) : t \in Texts(1), f \in Formattings}

(* the grid columns a cell of the documents below spans *)
MaxGridSpan == 2

ReplaceBodies ==
    {<<p>> : p \in Paragraphs} \cup
    {<<q, MergedTable(<< << <<c>> >> >>, << <<n>> >>)>> :
        q \in SmallParagraphs, c \in SmallParagraphs, n \in 1..MaxGridSpan}

(* replacement texts with a backslash: alone, before a letter, doubled *)
EscapeTexts == {<<"\\">>, <<"\\", "n">>, <<"\\", "\\">>}

ReplaceTexts == Texts(MaxReplaceLen) \cup EscapeTexts

(***************************************************************************)
(* find_and_replace_text as one step of the processor                      *)
(***************************************************************************)
FindAndReplace ==
    /\ call.op = "none"
    /\ \E search_text \in Texts(MaxSearchLen), replace_text \in ReplaceTexts,
          preserve_formatting \in BOOLEAN, case_sensitive \in BOOLEAN :
          LET r == FindAndReplaceText(document, search_text, replace_text,
                                      preserve_formatting, case_sensitive)
          IN  /\ document' = [document EXCEPT !.body = r.body]
              /\ call' = [op |-> "find_and_replace_text",
                          search_text |-> search_text, replace_text |-> replace_text,
                          preserve_formatting |-> preserve_formatting,
                          case_sensitive |-> case_sensitive,
                          pre |-> document.body,
                          result |-> r.result, error |-> r.error]
    /\ UNCHANGED <<original_styles, resume_data>>

Init ==
    /\ document = NoDocument
    /\ original_styles = {}
    /\ resume_data = PyNone
    /\ call = NoCall

LoadReplaceDocument == LoadFromBuffer(ReplaceBodies, {{"Normal"}})

NextReplace == LoadReplaceDocument \/ FindAndReplace

SpecReplace == Init /\ [][NextReplace]_vars

(***************************************************************************)
(* Reference notions the properties are stated with.                       *)
(***************************************************************************)
SamePiece(piece, search, case_sensitive) ==
    IF case_sensitive THEN piece = search ELSE Lower(piece) = Lower(search)

(* start positions of the leftmost non-overlapping occurrences, search # <<>> *)
RECURSIVE OccurrenceStarts(_, _, _, _)
OccurrenceStarts(text, search, case_sensitive, i) ==
    IF i + Len(search) - 1 > Len(text) THEN <<>>
    ELSE IF SamePiece(Slice(text, i, i + Len(search) - 1), search, case_sensitive)
         THEN <<i>> \o OccurrenceStarts(text, search, case_sensitive, i + Len(search))
         ELSE OccurrenceStarts(text, search, case_sensitive, i + 1)

Occurrences(text, search, case_sensitive) ==
    Len(OccurrenceStarts(text, search, case_sensitive, 1))

(* the text with exactly those occurrences replaced, search # <<>> *)
RECURSIVE Substituted(_, _, _, _)
Substituted(text, search, replace, case_sensitive) ==
    IF Len(text) < Len(search) THEN text
    ELSE IF SamePiece(Slice(text, 1, Len(search)), search, case_sensitive)
         THEN replace \o Substituted(Slice(text, Len(search) + 1, Len(text)),
                                     search, replace, case_sensitive)
         ELSE <<Head(text)>> \o Substituted(Tail(text), search, replace, case_sensitive)

TopLevelAddrs(body) ==
    {[b |-> b, r |-> 0, c |-> 0, k |-> 0] : b \in {i \in 1..Len(body) : body[i].kind = "p"}}

CellAddrs(body) ==
    UNION {UNION {UNION {{[b |-> b, r |-> r, c |-> c, k |-> k] :
                            k \in 1..Len(body[b].rows[r][c])} :
                         c \in 1..Len(body[b].rows[r])} :
                  r \in 1..Len(body[b].rows)} :
           b \in {i \in 1..Len(body) : body[i].kind = "tbl"}}

ParagraphAddrs(body) == TopLevelAddrs(body) \cup CellAddrs(body)

TextAt(body, a) == ParagraphText(ParagraphAt(body, a))

RECURSIVE TotalOccurrences(_, _, _, _)
TotalOccurrences(body, addrs, search, case_sensitive) ==
    IF addrs = {} THEN 0
    ELSE LET a == CHOOSE x \in addrs : TRUE
         IN  Occurrences(TextAt(body, a), search, case_sensitive)
               + TotalOccurrences(body, addrs \ {a}, search, case_sensitive)

(* the formatting of every character of a paragraph, in text order *)
CharFormattings(paragraph) ==
    Flatten([i \in 1..Len(paragraph.runs) |->
        [j \in 1..Len(paragraph.runs[i].text) |-> paragraph.runs[i].formatting]])

IsReplaceCall == call.op = "find_and_replace_text" /\ document.loaded

IsPreservingReplace ==
    IsReplaceCall /\ call.preserve_formatting /\ call.search_text # <<>>

(***************************************************************************)
(* C1: a formatting-preserving find_and_replace_text with a non-empty      *)
(* search string returns the number of leftmost non-overlapping            *)
(* case-matching occurrences of the search string, summed over all         *)
(* top-level and table-cell paragraphs, and afterwards every paragraph's   *)
(* text is its original text with exactly those occurrences replaced.      *)
(***************************************************************************)
C1_ReplacementCountAccuracy ==
    IsPreservingReplace =>
        /\ call.error = None
        /\ call.result = TotalOccurrences(call.pre, ParagraphAddrs(call.pre),
                                          call.search_text, call.case_sensitive)
        /\ ParagraphAddrs(document.body) = ParagraphAddrs(call.pre)
        /\ \A a \in ParagraphAddrs(call.pre) :
              TextAt(document.body, a) =
                 Substituted(TextAt(call.pre, a), call.search_text,
                             call.replace_text, call.case_sensitive)

(***************************************************************************)
(* C2: find_and_replace_text called with the empty search string returns   *)
(* 0 and changes no paragraph, whatever preserve_formatting and            *)
(* case_sensitive are.                                                     *)
(***************************************************************************)
C2_EmptySearchGuard ==
    (IsReplaceCall /\ call.search_text = <<>>) =>
        /\ call.error = None
        /\ call.result = 0
        /\ document.body = call.pre

(***************************************************************************)
(* C3: after a formatting-preserving replace every character of each       *)
(* inserted replacement text carries the formatting that the first         *)
(* character of the match it replaced had before the call.                 *)
(***************************************************************************)
(* position in the new text of the replacement of the j-th occurrence *)
NewStart(starts, j, search, replace) ==
    starts[j] + (j - 1) * (Len(replace) - Len(search))

IsSelfReplace == IsPreservingReplace /\ call.replace_text = call.search_text

IsCoalesced(paragraph) ==
    /\ \A i \in 1..Len(paragraph.runs) : paragraph.runs[i].text # <<>>
    /\ \A i \in 1..(Len(paragraph.runs) - 1) :
          paragraph.runs[i].formatting # paragraph.runs[i + 1].formatting

(* every occurrence lies within characters of one formatting *)
MatchesWithinOneFormatting(paragraph, search, case_sensitive) ==
    LET starts == OccurrenceStarts(ParagraphText(paragraph), search, case_sensitive, 1)
        fmts   == CharFormattings(paragraph)
    IN  \A j \in 1..Len(starts) : \A k \in 0..(Len(search) - 1) :
           fmts[starts[j] + k] = fmts[starts[j]]

C5_CaseSensitivity ==
    (IsReplaceCall /\ call.search_text # <<>>) =>
        LET exact  == TotalOccurrences(call.pre, ParagraphAddrs(call.pre),
                                       call.search_text, TRUE)
            folded == TotalOccurrences(call.pre, ParagraphAddrs(call.pre),
                                       call.search_text, FALSE)
        IN  /\ (call.case_sensitive /\ exact = 0) =>
                  (call.error = None /\ call.result = 0 /\ document.body = call.pre)
            /\ (~call.case_sensitive /\ exact = 0 /\ folded >= 1) =>
                  /\ call.error = None
                  /\ call.result >= 1
                  /\ \A a \in ParagraphAddrs(call.pre) :
                        TextAt(document.body, a) =
                           Substituted(TextAt(call.pre, a), call.search_text,
                                       call.replace_text, FALSE)

(***************************************************************************)
(* Bullet expansion: replace_with_bullet_points and its helpers.           *)
(***************************************************************************)
Bullet == "bullet"

Whitespace == {" ", "\t", "\n"}

(* str.strip() *)
RECURSIVE LStrip(_)
LStrip(t) == IF t # <<>> /\ Head(t) \in Whitespace THEN LStrip(Tail(t)) ELSE t

Strip(t) == Reverse(LStrip(Reverse(LStrip(t))))

StartsWith(t, prefix) == Len(t) >= Len(prefix) /\ Slice(t, 1, Len(prefix)) = prefix

MarkerPhrase ==
    <<"a", "d", "d", " ", "h", "i", "g", "h", "l", "i", "g", "h", "t", "s", " ",
      "w", "i", "t", "h", " ", "t", "h", "i", "s", " ", "s", "t", "y", "l", "e">>

BulletLayout ==
    [left_indent |-> "Inches(0.5)", first_line_indent |-> "Inches(-0.25)",
     space_after |-> "Pt(3)", line_spacing |-> "1.15"]

(* _apply_bullet_formatting: the style only where the document has it *)
ApplyBulletFormatting(paragraph, styles) ==
    [paragraph EXCEPT
        !.style  = IF "List Paragraph" \in styles THEN "List Paragraph" ELSE @,
        !.layout = BulletLayout]

(* _find_template_bullet_formatting: the formatting of the first run of    *)
(* the first template bullet paragraph, or None                            *)
IsTemplateBullet(paragraph) ==
    /\ StartsWith(Strip(ParagraphText(paragraph)), <<Bullet>>)
    /\ Contains(MarkerPhrase, Lower(Strip(ParagraphText(paragraph))))
    /\ paragraph.runs # <<>>

FindTemplateBulletFormatting(body) ==
    LET hits == SelectSeq(DocumentParagraphs(body),
                          LAMBDA a : IsTemplateBullet(ParagraphAt(body, a)))
    IN  IF hits = <<>> THEN [found |-> FALSE, formatting |-> DefaultFormatting]
        ELSE [found |-> TRUE,
              formatting |-> ExtractRunFormatting(ParagraphAt(body, Head(hits)).runs[1])]

(* parent_element.insert(index, element) for an element that              *)
(* document.add_paragraph() has just appended: it moves before the child   *)
(* now at that position (positions are 1-based here)                       *)
MoveLastTo(body, index) ==
    IF index >= Len(body) THEN body
    ELSE Slice(body, 1, index - 1) \o <<body[Len(body)]>> \o Slice(body, index, Len(body) - 1)

(* variant: every new paragraph is inserted right after the token paragraph *)
RECURSIVE InsertBullets_AllAtFirst(_, _, _, _, _, _)
InsertBullets_AllAtFirst(body, paragraph_index, items, i, template, styles) ==
    IF i > Len(items) THEN body
    ELSE LET run == NewRun(<<Bullet, " ">> \o items[i])
             new_paragraph ==
                 ApplyBulletFormatting(
                     Paragraph(<<IF template.found
                                 THEN ApplyRunFormatting(run, template.formatting)
                                 ELSE run>>),
                     styles)
         IN  InsertBullets_AllAtFirst(MoveLastTo(Append(body, new_paragraph),
                                                 paragraph_index + 1),
                                      paragraph_index, items, i + 1, template, styles)

(* the loop over bullet_items[1:]; items[i] is the i-th item, i >= 2, and  *)
(* paragraph_index the 1-based position of the token paragraph             *)
RECURSIVE InsertBullets(_, _, _, _, _, _)
InsertBullets(body, paragraph_index, items, i, template, styles) ==
    IF i > Len(items) THEN body
    ELSE LET run == NewRun(<<Bullet, " ">> \o items[i])
             new_paragraph ==
                 ApplyBulletFormatting(
                     Paragraph(<<IF template.found
                                 THEN ApplyRunFormatting(run, template.formatting)
                                 ELSE run>>),
                     styles)
         IN  InsertBullets(MoveLastTo(Append(body, new_paragraph),
                                      paragraph_index + (i - 1)),
                           paragraph_index, items, i + 1, template, styles)

(* variant: the number of items rendered is returned *)
ReplaceWithBulletPoints_ItemCount(doc, search_text, bullet_items) ==
    IF ~doc.loaded \/ bullet_items = <<>>
    THEN [body |-> doc.body, result |-> 0, error |-> None]
    ELSE LET hits == SelectSeq(DocumentParagraphs(doc.body),
                        LAMBDA a : Contains(search_text, TextAt(doc.body, a)))
         IN  IF hits = <<>> THEN [body |-> doc.body, result |-> 0, error |-> None]
             ELSE LET r == ReplaceWithFormattingPreservation(
                              ParagraphAt(doc.body, Head(hits)), search_text,
                              <<Bullet, " ">> \o bullet_items[1], FALSE)
                  IN  IF r.raised
                      THEN [body |-> doc.body, result |-> -1, error |-> "IndexError"]
                      ELSE [body |-> InsertBullets(
                                        SetParagraphAt(doc.body, Head(hits),
                                            ApplyBulletFormatting(r.para, doc.styles)),
                                        Head(hits).b, bullet_items, 2,
                                        FindTemplateBulletFormatting(doc.body),
                                        doc.styles),
                            result |-> Len(bullet_items), error |-> None]

(* replace_with_bullet_points: [body, result, error] *)
ReplaceWithBulletPoints(doc, search_text, bullet_items) ==
    IF ~doc.loaded \/ bullet_items = <<>>
    THEN [body |-> doc.body, result |-> 0, error |-> None]
    ELSE LET template_bullet_style == FindTemplateBulletFormatting(doc.body)
             hits == SelectSeq(DocumentParagraphs(doc.body),
                        LAMBDA a : Contains(search_text, TextAt(doc.body, a)))
         IN  IF hits = <<>> THEN [body |-> doc.body, result |-> 0, error |-> None]
             ELSE LET a == Head(hits)
                      r == ReplaceWithFormattingPreservation(
                              ParagraphAt(doc.body, a), search_text,
                              <<Bullet, " ">> \o bullet_items[1], FALSE)
                  IN  IF r.raised
                      THEN [body |-> doc.body, result |-> -1, error |-> "IndexError"]
                      ELSE IF r.count > 0
                      THEN [body |-> InsertBullets(
                                        SetParagraphAt(doc.body, a,
                                            ApplyBulletFormatting(r.para, doc.styles)),
                                        a.b, bullet_items, 2,
                                        template_bullet_style, doc.styles),
                            result |-> r.count, error |-> None]
                      ELSE [body |-> doc.body, result |-> 0, error |-> None]

(***************************************************************************)
(* The documents and arguments of the bullet-expansion runs.               *)
(***************************************************************************)
TemplateBulletParagraph ==
    Paragraph(<<[text |-> <<Bullet, " ", "A", "d", "d", " ", "h", "i", "g", "h", "l", "i",
                            "g", "h", "t", "s", " ", "w", "i", "t", "h", " ", "t", "h",
                            "i", "s", " ", "s", "t", "y", "l", "e", ".">>,
                 formatting |-> [DefaultFormatting EXCEPT !.italic = "True"]]>>)

BulletParagraphs ==
    {Paragraph(<<[text |-> t, formatting |-> StyledFormatting]>>) :
        t \in Texts(MaxRunLen) \ {<<>>}}

BulletBlocks ==
    BulletParagraphs \cup
    {TemplateBulletParagraph, Table(<< << <<Paragraph(<<NewRun(<<"a">>)>>)>> >> >>)}

BulletBodies == SeqsUpTo(BulletBlocks, MaxBlocks) \ {<<>>}

ItemTexts == {<<"x">>, <<"y">>}

ReplaceBullets ==
    /\ call.op = "none"
    /\ document.loaded
    /\ \E search_text \in Texts(MaxTokenLen) \ {<<>>},
          bullet_items \in SeqsUpTo(ItemTexts, MaxItems) :
          LET r == ReplaceWithBulletPoints(document, search_text, bullet_items)
          IN  /\ document' = [document EXCEPT !.body = r.body]
              /\ call' = [op |-> "replace_with_bullet_points",
                          search_text |-> search_text, bullet_items |-> bullet_items,
                          pre |-> document.body,
                          result |-> r.result, error |-> r.error]
    /\ UNCHANGED <<original_styles, resume_data>>

LoadBulletDocument ==
    LoadFromBuffer(BulletBodies, {{"Normal"}, {"Normal", "List Paragraph"}})

NextBullet == LoadBulletDocument \/ ReplaceBullets

SpecBullet == Init /\ [][NextBullet]_vars

IsBulletCall == call.op = "replace_with_bullet_points"

(* the top-level positions whose paragraph text contains the token *)
TokenPositions(body, token) ==
    {b \in 1..Len(body) : body[b].kind = "p" /\ Contains(token, ParagraphText(body[b]))}

IsFirstTokenPosition(body, token, b) ==
    b \in TokenPositions(body, token) /\ \A c \in TokenPositions(body, token) : b <= c

(* positions b .. b+k-1 hold the k bullet paragraphs, the rest is as before *)
ExpandedAt(before, after, b, items) ==
    /\ Len(after) = Len(before) + Len(items) - 1
    /\ \A i \in 1..Len(items) :
          /\ after[b + i - 1].kind = "p"
          /\ ParagraphText(after[b + i - 1]) = <<Bullet, " ">> \o items[i]
          /\ after[b + i - 1].layout = BulletLayout
    /\ Slice(after, 1, b - 1) = Slice(before, 1, b - 1)
    /\ Slice(after, b + Len(items), Len(after)) = Slice(before, b + 1, Len(before))

(***************************************************************************)
(* C6: for a top-level paragraph whose text is exactly the token and a     *)
(* list of k >= 1 items, replace_with_bullet_points leaves k consecutive   *)
(* sibling paragraphs starting at the token paragraph's position, with     *)
(* texts "bullet " + items[i] in item order, each carrying the bullet      *)
(* layout; all other blocks keep their relative order.                     *)
(***************************************************************************)
C6_BulletExpansion ==
    (IsBulletCall /\ call.bullet_items # <<>>) =>
        \A b \in 1..Len(call.pre) :
            (call.pre[b].kind = "p" /\ ParagraphText(call.pre[b]) = call.search_text)
               => ExpandedAt(call.pre, document.body, b, call.bullet_items)

(* C6 as amended: the same for the first top-level paragraph that contains *)
(* the token, when its text is exactly the token.                          *)
C6_BulletExpansionOfFirst ==
    (IsBulletCall /\ call.bullet_items # <<>>) =>
        \A b \in 1..Len(call.pre) :
            (/\ IsFirstTokenPosition(call.pre, call.search_text, b)
             /\ ParagraphText(call.pre[b]) = call.search_text)
               => ExpandedAt(call.pre, document.body, b, call.bullet_items)

(* three items expanded at a token paragraph that follows a table and is   *)
(* followed by another paragraph                                           *)
C6_Witness ==
    /\ IsBulletCall
    /\ Len(call.bullet_items) = 3
    /\ call.bullet_items[2] # call.bullet_items[3]
    /\ Len(call.pre) = 3
    /\ call.pre[1].kind = "tbl"
    /\ IsFirstTokenPosition(call.pre, call.search_text, 2)
    /\ ParagraphText(call.pre[2]) = call.search_text
    /\ call.pre[3].kind = "p"
    /\ Len(document.body) = 5

(***************************************************************************)
(* C7: replace_with_bullet_points returns the number of items rendered:    *)
(* len(items) when the token is found in some paragraph, 0 when not.       *)
(***************************************************************************)
C7_ReturnsItemCount ==
    IsBulletCall =>
        /\ call.error = None
        /\ call.result = IF TokenPositions(call.pre, call.search_text) # {}
                         THEN Len(call.bullet_items) ELSE 0

(* C7 as amended: the result is the number of case-insensitive occurrences *)
(* of the token in the first top-level paragraph containing it, and 0 when *)
(* no top-level paragraph contains it or the item list is empty.           *)
C7_ReturnsMatchCount ==
    IsBulletCall =>
        /\ call.error = None
        /\ \/ /\ call.bullet_items = <<>> \/ TokenPositions(call.pre, call.search_text) = {}
              /\ call.result = 0
              /\ document.body = call.pre
           \/ /\ call.bullet_items # <<>>
              /\ \E b \in 1..Len(call.pre) :
                    /\ IsFirstTokenPosition(call.pre, call.search_text, b)
                    /\ call.result = Occurrences(ParagraphText(call.pre[b]),
                                                 call.search_text, FALSE)

(* three items rendered for a token that occurs once: the result is 1 *)
C7_Witness ==
    /\ IsBulletCall
    /\ Len(call.bullet_items) = 3
    /\ TokenPositions(call.pre, call.search_text) # {}
    /\ call.result = 1
    /\ Len(document.body) = Len(call.pre) + 2

(***************************************************************************)
(* ResumeProcessor: set_resume_data and _get_nested_json_value.            *)
(***************************************************************************)
Digits == {"0", "1", "2", "3", "4", "5", "6", "7", "8", "9"}

DigitValue(c) ==
    CASE c = "0" -> 0 [] c = "1" -> 1 [] c = "2" -> 2 [] c = "3" -> 3 [] c = "4" -> 4
      [] c = "5" -> 5 [] c = "6" -> 6 [] c = "7" -> 7 [] c = "8" -> 8 [] c = "9" -> 9

(* str.split(sep) for a one-character separator *)
RECURSIVE SplitFrom(_, _, _)
SplitFrom(text, sep, current) ==
    IF text = <<>> THEN <<current>>
    ELSE IF Head(text) = sep THEN <<current>> \o SplitFrom(Tail(text), sep, <<>>)
    ELSE SplitFrom(Tail(text), sep, Append(current, Head(text)))

Split(text, sep) == SplitFrom(text, sep, <<>>)

(* str.isdigit() and int() *)
IsDigit(key) == key # <<>> /\ \A i \in 1..Len(key) : key[i] \in Digits

RECURSIVE IntFrom(_, _)
IntFrom(key, acc) ==
    IF key = <<>> THEN acc ELSE IntFrom(Tail(key), 10 * acc + DigitValue(Head(key)))

ParseInt(key) == IntFrom(key, 0)

(* dict access: `key in value` and value[key] *)
HasKey(node, key) == \E i \in 1..Len(node.d) : node.d[i].k = key

GetItem(node, key) == node.d[CHOOSE i \in 1..Len(node.d) : node.d[i].k = key].v

(* variant: a digit key is looked up in a mapping like any other key *)
RECURSIVE GetNestedLoop_KeysOnly(_, _)
GetNestedLoop_KeysOnly(value, keys) ==
    IF keys = <<>> THEN value
    ELSE IF value.t = "dict" /\ HasKey(value, Head(keys))
         THEN GetNestedLoop_KeysOnly(GetItem(value, Head(keys)), Tail(keys))
         ELSE PyNone

(* the loop `for key in keys` of _get_nested_json_value *)
RECURSIVE GetNestedLoop(_, _)
GetNestedLoop(value, keys) ==
    IF keys = <<>> THEN value
    ELSE LET key == Head(keys)
         IN  IF IsDigit(key)
             THEN IF value.t = "list" /\ ParseInt(key) < Len(value.l)
                  THEN GetNestedLoop(value.l[ParseInt(key) + 1], Tail(keys))
                  ELSE PyNone
             ELSE IF value.t = "dict" /\ HasKey(value, key)
                  THEN GetNestedLoop(GetItem(value, key), Tail(keys))
                  ELSE PyNone

GetNestedJsonValue(data, path) == GetNestedLoop(data, Split(path, "."))

(***************************************************************************)
(* The data trees and paths of the path-resolution runs.                   *)
(***************************************************************************)
TreeKeys == {<<"k">>, <<"0">>}

(* the dicts over a set of keys with values from a set of trees *)
DictsOver(values) ==
    {PyDict(SelectSeq(<< [k |-> <<"k">>, v |-> f[1]], [k |-> <<"0">>, v |-> f[2]] >>,
                      LAMBDA e : e.v # [t |-> "absent"])) :
        f \in [1..2 -> values \cup {[t |-> "absent"]}]}

LeafTrees == {PyStr(<<"v">>), PyNone}

FlatTrees ==
    LeafTrees \cup {PyList(l) : l \in SeqsUpTo(LeafTrees, MaxListLen)} \cup DictsOver(LeafTrees)

NestedTrees ==
    LeafTrees \cup {PyList(l) : l \in SeqsUpTo(FlatTrees, MaxListLen)} \cup DictsOver(FlatTrees)

(* the nested trees, and each of them as the value of key "k" of a dict *)
ResolveTrees ==
    (NestedTrees \ {PyNone}) \cup {PyDict(<<[k |-> <<"k">>, v |-> t]>>) : t \in NestedTrees}

Segments == {<<"k">>, <<"0">>, <<"1">>, <<>>}

(* str.join *)
RECURSIVE Join(_, _)
Join(parts, sep) ==
    IF parts = <<>> THEN <<>>
    ELSE IF Len(parts) = 1 THEN parts[1]
    ELSE parts[1] \o sep \o Join(Tail(parts), sep)

Paths == {Join(segs, <<".">>) : segs \in SeqsUpTo(Segments, MaxSegments)}

SetResumeData(trees) ==
    /\ call.op = "none"
    /\ resume_data = PyNone
    /\ \E tree \in trees : resume_data' = tree
    /\ UNCHANGED <<document, original_styles, call>>

SetResolveData == SetResumeData(ResolveTrees)

Resolve ==
    /\ call.op = "none"
    /\ resume_data # PyNone
    /\ \E path \in Paths :
          call' = [op |-> "_get_nested_json_value", path |-> path,
                   result |-> GetNestedJsonValue(resume_data, path)]
    /\ UNCHANGED <<document, original_styles, resume_data>>

(* the loop `for key in keys` of _get_nested_value *)
RECURSIVE GetNestedValueLoop(_, _)
GetNestedValueLoop(value, keys) ==
    IF keys = <<>> THEN value
    ELSE LET key == Head(keys)
         IN  IF value.t = "dict" /\ HasKey(value, key)
             THEN GetNestedValueLoop(GetItem(value, key), Tail(keys))
             ELSE PyNone

GetNestedValue(data, path) == GetNestedValueLoop(data, Split(path, "."))

ResolveNested ==
    /\ call.op = "none"
    /\ resume_data # PyNone
    /\ \E path \in Paths :
          call' = [op |-> "_get_nested_value", path |-> path,
                   result |-> GetNestedValue(resume_data, path)]
    /\ UNCHANGED <<document, original_styles, resume_data>>

NextResolve == SetResolveData \/ Resolve \/ ResolveNested

SpecResolve == Init /\ [][NextResolve]_vars

(***************************************************************************)
(* Reference: the nodes reached from a node by one segment and by a        *)
(* sequence of segments.  A segment is an index literal when it is the     *)
(* decimal numeral of a natural number, leading zeros allowed.             *)
(***************************************************************************)
RECURSIVE Numeral(_)
Numeral(n) ==
    IF n < 10 THEN <<CHOOSE c \in Digits : DigitValue(c) = n>>
    ELSE Append(Numeral(n \div 10), CHOOSE c \in Digits : DigitValue(c) = n % 10)

RECURSIVE DropZeros(_)
DropZeros(seg) == IF Len(seg) > 1 /\ Head(seg) = "0" THEN DropZeros(Tail(seg)) ELSE seg

IsIndexLiteral(seg) == seg # <<>> /\ {seg[i] : i \in 1..Len(seg)} \subseteq Digits

Children(node, seg) ==
    IF IsIndexLiteral(seg)
    THEN IF node.t = "list"
         THEN {node.l[n] : n \in {m \in 1..Len(node.l) : Numeral(m - 1) = DropZeros(seg)}}
         ELSE {}
    ELSE IF node.t = "dict"
         THEN {node.d[i].v : i \in {j \in 1..Len(node.d) : node.d[j].k = seg}}
         ELSE {}

RECURSIVE Reached(_, _)
Reached(nodes, segs) ==
    IF segs = <<>> THEN nodes
    ELSE Reached(UNION {Children(n, Head(segs)) : n \in nodes}, Tail(segs))

IsResolveCall == call.op = "_get_nested_json_value"

GetDocumentText(doc) ==
    IF ~doc.loaded THEN <<>>
    ELSE LET addrs == DocumentParagraphs(doc.body)
         IN  Join([i \in 1..Len(addrs) |-> TextAt(doc.body, addrs[i])], <<"\n">>)

(* index of the first "}" at or after position j, 0 when there is none *)
RECURSIVE FirstClose(_, _)
FirstClose(text, j) ==
    IF j > Len(text) THEN 0
    ELSE IF text[j] = "}" THEN j ELSE FirstClose(text, j + 1)

(* re.findall(r'\{\{([^}]+)\}\}', doc_text): the bodies, in text order *)
RECURSIVE FindPlaceholdersFrom(_, _)
FindPlaceholdersFrom(text, i) ==
    IF i + 1 > Len(text) THEN <<>>
    ELSE IF text[i] = "{" /\ text[i + 1] = "{"
         THEN LET j == FirstClose(text, i + 2)
              IN  IF j > i + 2 /\ j + 1 <= Len(text) /\ text[j + 1] = "}"
                  THEN <<Slice(text, i + 2, j - 1)>> \o FindPlaceholdersFrom(text, j + 2)
                  ELSE FindPlaceholdersFrom(text, i + 1)
         ELSE FindPlaceholdersFrom(text, i + 1)

FindPlaceholders(text) == FindPlaceholdersFrom(text, 1)

(* _get_default_short_mappings *)
DefaultShortMappings ==
    << [k |-> <<"{", "{", "N", "A", "M", "E", "}", "}">>,
        v |-> <<"n", "a", "m", "e">>],
       [k |-> <<"{", "{", "n", "a", "m", "e", "}", "}">>,
        v |-> <<"n", "a", "m", "e">>],
       [k |-> <<"{", "{", "p", "r", "o", "f", "e", "s", "s", "i", "o", "n", "a", "l",
              "_", "s", "u", "m", "m", "a", "r", "y", "}", "}">>,
        v |-> <<"p", "r", "o", "f", "e", "s", "s", "i", "o", "n", "a", "l", "_", "s",
              "u", "m", "m", "a", "r", "y">>],
       [k |-> <<"{", "{", "P", "R", "O", "F", "E", "S", "S", "I", "O", "N", "A", "L",
              "_", "S", "U", "M", "M", "A", "R", "Y", "}", "}">>,
        v |-> <<"p", "r", "o", "f", "e", "s", "s", "i", "o", "n", "a", "l", "_", "s",
              "u", "m", "m", "a", "r", "y">>],
       [k |-> <<"{", "{", "T", "E", "C", "H", "N", "I", "C", "A", "L", "_", "S", "K",
              "I", "L", "L", "S", "}", "}">>,
        v |-> <<"t", "e", "c", "h", "n", "i", "c", "a", "l", "_", "s", "k", "i", "l",
              "l", "s">>],
       [k |-> <<"{", "{", "t", "e", "c", "h", "n", "i", "c", "a", "l", "_", "s", "k",
              "i", "l", "l", "s", "}", "}">>,
        v |-> <<"t", "e", "c", "h", "n", "i", "c", "a", "l", "_", "s", "k", "i", "l",
              "l", "s">>],
       [k |-> <<"{", "{", "h", "i", "g", "h", "l", "i", "g", "h", "t", "s", "1", "}",
              "}">>,
        v |-> <<"h", "i", "g", "h", "l", "i", "g", "h", "t", "s", "1">>],
       [k |-> <<"{", "{", "h", "i", "g", "h", "l", "i", "g", "h", "t", "s", "2", "}",
              "}">>,
        v |-> <<"h", "i", "g", "h", "l", "i", "g", "h", "t", "s", "2">>],
       [k |-> <<"{", "{", "h", "i", "g", "h", "l", "i", "g", "h", "t", "s", "3", "}",
              "}">>,
        v |-> <<"h", "i", "g", "h", "l", "i", "g", "h", "t", "s", "3">>],
       [k |-> <<"{", "{", "p", "r", "o", "j", "e", "c", "t", "s", "1", "}", "}">>,
        v |-> <<"p", "r", "o", "j", "e", "c", "t", "s", "1">>],
       [k |-> <<"{", "{", "p", "r", "o", "j", "e", "c", "t", "s", "2", "}", "}">>,
        v |-> <<"p", "r", "o", "j", "e", "c", "t", "s", "2">>],
       [k |-> <<"{", "{", "p", "r", "o", "j", "e", "c", "t", "1", "_", "h", "i", "g",
              "h", "l", "i", "g", "h", "t", "s", "}", "}">>,
        v |-> <<"p", "r", "o", "j", "e", "c", "t", "1", "_", "h", "i", "g", "h", "l",
              "i", "g", "h", "t", "s">>],
       [k |-> <<"{", "{", "p", "r", "o", "j", "e", "c", "t", "2", "_", "h", "i", "g",
              "h", "l", "i", "g", "h", "t", "s", "}", "}">>,
        v |-> <<"p", "r", "o", "j", "e", "c", "t", "2", "_", "h", "i", "g", "h", "l",
              "i", "g", "h", "t", "s">>],
       [k |-> <<"{", "{", "e", "d", "u", "c", "a", "t", "i", "o", "n", "}", "}">>,
        v |-> <<"e", "d", "u", "c", "a", "t", "i", "o", "n">>] >>

(* a mapping is a sequence of [k, v] entries; dict.update *)
MappingHas(mapping, key) == \E i \in 1..Len(mapping) : mapping[i].k = key

MappingGet(mapping, key) == mapping[CHOOSE i \in 1..Len(mapping) : mapping[i].k = key].v

MappingUpdate(mapping, other) ==
    SelectSeq(mapping, LAMBDA e : ~MappingHas(other, e.k)) \o other

(* placeholder_key, the key looked up in all_mappings *)
LookupKey(placeholder) == Strip(placeholder)

(* str(value) and repr(value) of a tree value *)
RECURSIVE Repr(_)
Repr(node) ==
    CASE node.t = "str"  -> <<"'">> \o node.s \o <<"'">>
      [] node.t = "none" -> <<"N", "o", "n", "e">>
      [] node.t = "list" ->
            <<"[">> \o Join([i \in 1..Len(node.l) |-> Repr(node.l[i])], <<",", " ">>)
                   \o <<"]">>
      [] node.t = "dict" ->
            <<"{">> \o Join([i \in 1..Len(node.d) |->
                               <<"'">> \o node.d[i].k \o <<"'", ":", " ">>
                                  \o Repr(node.d[i].v)], <<",", " ">>)
                   \o <<"}">>

PyStrOf(node) == IF node.t = "str" THEN node.s ELSE Repr(node)

WordHighlights ==
    <<"h", "i", "g", "h", "l", "i", "g", "h", "t", "s">>

WordResponsibilities ==
    <<"r", "e", "s", "p", "o", "n", "s", "i", "b", "i", "l", "i", "t", "i", "e",
      "s">>

WordTechnicalSkills ==
    <<"t", "e", "c", "h", "n", "i", "c", "a", "l", "_", "s", "k", "i", "l", "l",
      "s">>

WordContact ==
    <<"c", "o", "n", "t", "a", "c", "t">>

WordPhone ==
    <<"p", "h", "o", "n", "e">>

WordEmail ==
    <<"e", "m", "a", "i", "l">>

WordLinkedin ==
    <<"l", "i", "n", "k", "e", "d", "i", "n">>

WordProfessionalExperience ==
    <<"p", "r", "o", "f", "e", "s", "s", "i", "o", "n", "a", "l", "_", "e", "x",
      "p", "e", "r", "i", "e", "n", "c", "e">>

WordProject ==
    <<"p", "r", "o", "j", "e", "c", "t">>

WordEducation ==
    <<"e", "d", "u", "c", "a", "t", "i", "o", "n">>

HasListTerm(key_lower) ==
    Contains(WordHighlights, key_lower) \/ Contains(WordResponsibilities, key_lower)

(* _format_json_value *)
FormatJsonValue(value, placeholder_key) ==
    IF value.t = "list"
    THEN IF Contains(WordTechnicalSkills, Lower(placeholder_key))
         THEN Join([i \in 1..Len(value.l) |-> PyStrOf(value.l[i])], <<",", " ">>)
         ELSE IF HasListTerm(Lower(placeholder_key))
         THEN IF value.l = <<>> THEN <<>>
              ELSE Join([i \in 1..Len(value.l) |->
                            <<Bullet, " ">> \o PyStrOf(value.l[i])], <<"\n">>)
         ELSE Join([i \in 1..Len(value.l) |-> PyStrOf(value.l[i])], <<",", " ">>)
    ELSE PyStrOf(value)

(* _categorize_placeholder *)
CategorizePlaceholder(placeholder_key) ==
    LET key_lower == Lower(placeholder_key)
    IN  IF \E term \in {WordContact, WordPhone, WordEmail, WordLinkedin} :
              Contains(term, key_lower)
        THEN "contact_fields"
        ELSE IF Contains(WordTechnicalSkills, key_lower) THEN "technical_skills"
        ELSE IF Contains(WordProfessionalExperience, key_lower)
             THEN "professional_experience"
        ELSE IF Contains(WordProject, key_lower) THEN "projects"
        ELSE IF Contains(WordEducation, key_lower) THEN "education"
        ELSE "basic_fields"

NoReplacements ==
    [basic_fields |-> 0, contact_fields |-> 0, technical_skills |-> 0,
     professional_experience |-> 0, projects |-> 0, education |-> 0,
     total_replacements |-> 0]

(* `not value` of Python *)
Falsy(node) ==
    \/ node.t = "none"
    \/ node.t = "str" /\ node.s = <<>>
    \/ node.t = "list" /\ node.l = <<>>
    \/ node.t = "dict" /\ node.d = <<>>

(* the loop over lines[1:] of _split_paragraph_with_bullets; n is the loop *)
(* index i, paragraph_index the 1-based position of the split paragraph    *)
RECURSIVE SplitInsert(_, _, _, _, _)
SplitInsert(body, paragraph_index, lines, n, styles) ==
    IF n + 1 > Len(lines) THEN body
    ELSE LET line == Strip(lines[n + 1])
         IN  IF line = <<>>
             THEN SplitInsert(body, paragraph_index, lines, n + 1, styles)
             ELSE LET plain == Paragraph(<<NewRun(line)>>)
                      new_para == IF StartsWith(line, <<Bullet>>)
                                  THEN ApplyBulletFormatting(plain, styles)
                                  ELSE plain
                  IN  SplitInsert(MoveLastTo(Append(body, new_para), paragraph_index + n),
                                  paragraph_index, lines, n + 1, styles)

(* _split_paragraph_with_bullets *)
SplitParagraphWithBullets(body, paragraph_index, styles) ==
    LET paragraph == body[paragraph_index]
        text == ParagraphText(paragraph)
    IN  IF ~Contains(<<Bullet>>, text) \/ ~Contains(<<"\n">>, text) THEN body
        ELSE LET lines == Split(text, "\n")
                 first_line == Strip(lines[1])
                 cleared == ClearParagraph(paragraph)
                 kept == IF first_line # <<>> THEN AddRun(cleared, NewRun(first_line))
                         ELSE cleared
             IN  SplitInsert([b \in 1..Len(body) |->
                                IF b = paragraph_index THEN kept ELSE body[b]],
                             paragraph_index, lines, 1, styles)

RECURSIVE SplitAll(_, _, _)
SplitAll(body, positions, styles) ==
    IF positions = <<>> THEN body
    ELSE SplitAll(SplitParagraphWithBullets(body, Head(positions), styles),
                  Tail(positions), styles)

(* _apply_bullet_formatting_to_document *)
ApplyBulletFormattingToDocument(doc) ==
    IF ~doc.loaded THEN doc.body
    ELSE LET body == doc.body
             stripped(b) == Strip(ParagraphText(body[b]))
             multi(b) == Contains(<<Bullet>>, stripped(b)) /\ Contains(<<"\n">>, stripped(b))
             paragraphs_to_process ==
                 SelectSeq([b \in 1..Len(body) |-> b],
                           LAMBDA b : body[b].kind = "p" /\ multi(b))
             formatted ==
                 [b \in 1..Len(body) |->
                    IF body[b].kind = "p" /\ ~multi(b) /\ StartsWith(stripped(b), <<Bullet>>)
                    THEN ApplyBulletFormatting(body[b], doc.styles)
                    ELSE body[b]]
         IN  SplitAll(formatted, Reverse(paragraphs_to_process), doc.styles)

(* the element of a one-element set; in {e(v) : v \in {x}} the value of x  *)
(* is computed once and named v                                            *)
TheOne(S) == CHOOSE y \in S : TRUE

(* full_placeholder *)
FullPlaceholder(placeholder) == <<"{", "{">> \o placeholder \o <<"}", "}">>

(* the path a placeholder is resolved through and the value it gives *)
ResolvePlaceholder(data, all_mappings, placeholder) ==
    TheOne({[json_path |-> json_path, value |-> GetNestedJsonValue(data, json_path)] :
               json_path \in {IF MappingHas(all_mappings, LookupKey(placeholder))
                              THEN MappingGet(all_mappings, LookupKey(placeholder))
                              ELSE LookupKey(placeholder)}})

(* the replacement of one placeholder by a value that is not None *)
ReplacePlaceholder(doc, placeholder, replacement_value) ==
    IF replacement_value.t = "list" /\ HasListTerm(Lower(Strip(placeholder)))
    THEN TheOne({ReplaceWithBulletPoints(doc, full_placeholder, bullet_items) :
                    full_placeholder \in {FullPlaceholder(placeholder)},
                    bullet_items \in {[n \in 1..Len(replacement_value.l) |->
                                         PyStrOf(replacement_value.l[n])]}})
    ELSE TheOne({FindAndReplaceText(doc, full_placeholder, formatted_value, TRUE, FALSE) :
                    full_placeholder \in {FullPlaceholder(placeholder)},
                    formatted_value \in {FormatJsonValue(replacement_value,
                                                         Strip(placeholder))}})

(* variant: the count goes to the category bucket only *)
CountReplacements_CategoryOnly(replacements_made, placeholder, count) ==
    IF count > 0
    THEN [replacements_made EXCEPT
             ![CategorizePlaceholder(Strip(placeholder))] = @ + count]
    ELSE replacements_made

(* replacements_made after a replacement that returned count *)
CountReplacements(replacements_made, placeholder, count) ==
    IF count > 0
    THEN [replacements_made EXCEPT
             ![CategorizePlaceholder(Strip(placeholder))] = @ + count,
             !.total_replacements = @ + count]
    ELSE replacements_made

(* the loop `for placeholder in placeholders` of                           *)
(* apply_json_template_replacement; log records, per placeholder, the path *)
(* that was resolved, the value it gave and the count of the replacement   *)
RECURSIVE ApplyPlaceholders(_, _, _, _, _, _, _)
ApplyPlaceholders(doc, data, all_mappings, placeholders, i, replacements_made, log) ==
    IF i > Len(placeholders)
    THEN [body |-> doc.body, result |-> replacements_made, error |-> None, log |-> log]
    ELSE TheOne({
           IF resolved.value = PyNone
           THEN ApplyPlaceholders(doc, data, all_mappings, placeholders, i + 1,
                    replacements_made,
                    Append(log, [placeholder |-> placeholders[i],
                                 json_path |-> resolved.json_path,
                                 value |-> resolved.value, count |-> 0]))
           ELSE TheOne({
                  IF r.error # None
                  THEN [body |-> r.body, result |-> replacements_made,
                        error |-> "EditOperationError",
                        log |-> Append(log, [placeholder |-> placeholders[i],
                                             json_path |-> resolved.json_path,
                                             value |-> resolved.value, count |-> 0])]
                  ELSE ApplyPlaceholders(
                           [doc EXCEPT !.body = r.body], data, all_mappings,
                           placeholders, i + 1,
                           CountReplacements(replacements_made, placeholders[i], r.result),
                           Append(log, [placeholder |-> placeholders[i],
                                        json_path |-> resolved.json_path,
                                        value |-> resolved.value, count |-> r.result])) :
                  r \in {ReplacePlaceholder(doc, placeholders[i], resolved.value)}}) :
           resolved \in {ResolvePlaceholder(data, all_mappings, placeholders[i])}})

(* all_mappings: the defaults updated with the custom mappings *)
AllMappings(custom_mappings) ==
    IF custom_mappings # <<>>
    THEN MappingUpdate(DefaultShortMappings, custom_mappings)
    ELSE DefaultShortMappings

(* apply_json_template_replacement *)
ApplyJsonTemplateReplacement(doc, data, custom_mappings) ==
    IF Falsy(data)
    THEN [body |-> doc.body, result |-> NoReplacements,
          error |-> "EditOperationError", log |-> <<>>]
    ELSE TheOne({
           TheOne({IF r.error # None THEN r
                   ELSE [r EXCEPT !.body =
                            ApplyBulletFormattingToDocument([doc EXCEPT !.body = r.body])] :
                   r \in {ApplyPlaceholders(doc, data, all_mappings, placeholders, 1,
                                            NoReplacements, <<>>)}}) :
           placeholders \in {FindPlaceholders(GetDocumentText(doc))},
           all_mappings \in {AllMappings(custom_mappings)}})

(***************************************************************************)
(* The templates, data trees and custom mappings of the expansion runs.    *)
(***************************************************************************)
BodyNAME ==
    <<"N", "A", "M", "E">>

BodyName ==
    <<"n", "a", "m", "e">>

BodyContactEmail ==
    <<"c", "o", "n", "t", "a", "c", "t", ".", "e", "m", "a", "i", "l">>

BodyHighlights1 ==
    <<"h", "i", "g", "h", "l", "i", "g", "h", "t", "s", "1">>

BodyCompany1 ==
    <<"c", "o", "m", "p", "a", "n", "y", "1">>

BodyMissing ==
    <<"m", "i", "s", "s", "i", "n", "g">>

PathCompany ==
    <<"p", "r", "o", "f", "e", "s", "s", "i", "o", "n", "a", "l", "_", "e",
      "x", "p", "e", "r", "i", "e", "n", "c", "e", ".", "0", ".", "c", "o",
      "m", "p", "a", "n", "y">>

KeyContact ==
    <<"c", "o", "n", "t", "a", "c", "t">>

KeyEmail ==
    <<"e", "m", "a", "i", "l">>

KeyCompany ==
    <<"c", "o", "m", "p", "a", "n", "y">>

KeyProfessionalExperience ==
    <<"p", "r", "o", "f", "e", "s", "s", "i", "o", "n", "a", "l", "_", "e",
      "x", "p", "e", "r", "i", "e", "n", "c", "e">>

TokenBodies ==
    {BodyNAME, BodyName, BodyContactEmail, BodyHighlights1, BodyCompany1, BodyMissing}

Token(body) == FullPlaceholder(body)

TokenParagraph(body) == Paragraph(<<ApplyRunFormatting(NewRun(Token(body)), StyledFormatting)>>)

(* a token whose text is spread over two runs of different formatting *)
SplitTokenParagraph ==
    Paragraph(<<ApplyRunFormatting(NewRun(<<"{", "{", "n", "a">>), StyledFormatting),
                NewRun(<<"m", "e", "}", "}">>)>>)

TemplateBlocks ==
    {TokenParagraph(body) : body \in TokenBodies}
      \cup {SplitTokenParagraph, Paragraph(<<NewRun(<<"a">>)>>),
            Paragraph(<<NewRun(<<Bullet, " ", "a">>)>>)}
      \cup {Table(<< << <<TokenParagraph(body)>> >> >>) :
               body \in {BodyNAME, BodyName, BodyHighlights1}}

TemplateBodies == SeqsUpTo(TemplateBlocks, MaxTemplateBlocks) \ {<<>>}

NameOnlyData == PyDict(<<[k |-> BodyName, v |-> PyStr(<<"A", "l">>)]>>)

FullData ==
    PyDict(<<[k |-> BodyName, v |-> PyStr(<<"A", "l">>)],
             [k |-> KeyContact, v |-> PyDict(<<[k |-> KeyEmail, v |-> PyStr(<<"e">>)]>>)],
             [k |-> BodyHighlights1, v |-> PyList(<<PyStr(<<"x">>), PyStr(<<"y">>)>>)],
             [k |-> KeyProfessionalExperience,
              v |-> PyList(<<PyDict(<<[k |-> KeyCompany, v |-> PyStr(<<"C", "o">>)]>>)>>)]>>)

(* two keys that differ in letter case only *)
CaseData ==
    PyDict(<<[k |-> BodyName, v |-> PyStr(<<"A", "l">>)],
             [k |-> BodyNAME, v |-> PyStr(<<"B", "o">>)]>>)

(* a value that reads like a token of the same template *)
ChainData ==
    PyDict(<<[k |-> BodyName, v |-> PyStr(Token(BodyContactEmail))],
             [k |-> KeyContact, v |-> PyDict(<<[k |-> KeyEmail, v |-> PyStr(<<"e">>)]>>)]>>)

TemplateData == {FullData, NameOnlyData, CaseData, ChainData, PyDict(<<>>)}

CustomMappings ==
    {<<>>,
     <<[k |-> BodyCompany1, v |-> PathCompany]>>,
     <<[k |-> BodyNAME, v |-> BodyContactEmail]>>}

LoadTemplateDocument == LoadFromBuffer(TemplateBodies, {{"Normal"}})

SetTemplateData == SetResumeData(TemplateData)

ApplyTemplate ==
    /\ call.op = "none"
    /\ \E custom_mappings \in CustomMappings :
          \E r \in {ApplyJsonTemplateReplacement(document, resume_data, custom_mappings)} :
              /\ document' = [document EXCEPT !.body = r.body]
              /\ call' = [op |-> "apply_json_template_replacement",
                          custom_mappings |-> custom_mappings,
                          pre |-> document.body,
                          result |-> r.result, error |-> r.error, log |-> r.log]
    /\ UNCHANGED <<original_styles, resume_data>>

NextTemplate == LoadTemplateDocument \/ SetTemplateData \/ ApplyTemplate

SpecTemplate == Init /\ [][NextTemplate]_vars

(***************************************************************************)
(* Reference notions for the expansion claims.                             *)
(***************************************************************************)
IsTemplateCall ==
    call.op = "apply_json_template_replacement" /\ call.error = None /\ document.loaded

(* the token occurs, letter for letter, in a paragraph at one of the addresses *)
OccursAt(body, addrs, token) ==
    \E a \in addrs : Occurrences(TextAt(body, a), token, TRUE) > 0

(* the node a dotted path leads to, None when a step is absent *)
ResolvedNode(path) ==
    LET reached == Reached({resume_data}, Split(path, "."))
    IN  IF reached = {} THEN PyNone ELSE CHOOSE n \in reached : TRUE

(* the alias table in effect: the defaults, custom entries overriding *)
AliasTable(custom_mappings) ==
    [key \in {DefaultShortMappings[i].k : i \in 1..Len(DefaultShortMappings)}
               \cup {custom_mappings[i].k : i \in 1..Len(custom_mappings)} |->
        IF \E i \in 1..Len(custom_mappings) : custom_mappings[i].k = key
        THEN custom_mappings[CHOOSE i \in 1..Len(custom_mappings) :
                                custom_mappings[i].k = key].v
        ELSE DefaultShortMappings[CHOOSE i \in 1..Len(DefaultShortMappings) :
                                     DefaultShortMappings[i].k = key].v]

(***************************************************************************)
(* C9: apply_json_template_replacement discovers the tokens of all         *)
(* paragraphs, table cells included: a token that occurs only in a         *)
(* table-cell paragraph and whose body resolves to a value is replaced     *)
(* (no cell holds it afterwards) and counted.                              *)
(***************************************************************************)
C9_TableCellTokensDiscovered ==
    IsTemplateCall =>
        \A body \in TokenBodies :
            (/\ OccursAt(call.pre, CellAddrs(call.pre), Token(body))
             /\ ~OccursAt(call.pre, TopLevelAddrs(call.pre), Token(body))
             /\ ResolvedNode(body).t = "str")
            => /\ ~OccursAt(document.body, CellAddrs(document.body), Token(body))
               /\ call.result.total_replacements >= 1

(***************************************************************************)
(* C10: every token the expansion processes is resolved through the path   *)
(* the alias table in effect (defaults merged with custom mappings, custom *)
(* entries overriding) lists for it, e.g. {{NAME}} through name, and every *)
(* token the table does not list is resolved with its body as the path.    *)
(***************************************************************************)
C10_AliasResolution ==
    IsTemplateCall =>
        \A i \in 1..Len(call.log) :
            LET entry == call.log[i]
                body == Strip(entry.placeholder)
                aliases == AliasTable(call.custom_mappings)
                path == IF body \in DOMAIN aliases THEN aliases[body]
                        ELSE IF Token(body) \in DOMAIN aliases THEN aliases[Token(body)]
                        ELSE body
            IN  entry.value = ResolvedNode(path)

(* the occurrences of a token, letter for letter, in all paragraphs and cells *)
ExactOccurrences(body, token) ==
    TotalOccurrences(body, ParagraphAddrs(body), token, TRUE)

RECURSIVE SumCounts(_)
SumCounts(log) == IF log = <<>> THEN 0 ELSE Head(log).count + SumCounts(Tail(log))

(***************************************************************************)
(* C11: tokens are case-sensitive in their literal text: the replacement   *)
(* made while token {{t}} is processed touches only occurrences spelled    *)
(* exactly {{t}}, so its count never exceeds their number and a token that *)
(* differs from {{t}} in letter case only is still in the document unless  *)
(* its own value replaced it.                                              *)
(***************************************************************************)
C11_TokensCaseSensitive ==
    IsTemplateCall =>
        /\ \A i \in 1..Len(call.log) :
              call.log[i].count <= ExactOccurrences(call.pre, Token(call.log[i].placeholder))
        /\ \A u \in TokenBodies :
              (/\ ExactOccurrences(call.pre, Token(u)) > 0
               /\ \A i \in 1..Len(call.log) :
                     call.log[i].placeholder = u => call.log[i].count = 0)
              => ExactOccurrences(document.body, Token(u))
                    = ExactOccurrences(call.pre, Token(u))

(***************************************************************************)
(* C12: when a token's resolution is Absent, the expansion attempts no     *)
(* replacement for it: its occurrences stay in the document and add        *)
(* nothing to any count (the total is the sum of the counts of the tokens  *)
(* that resolved), nothing is raised, and every token discovered in the    *)
(* top-level text is processed.                                            *)
(***************************************************************************)
C12_AbsentTokenSkipped ==
    (call.op = "apply_json_template_replacement" /\ document.loaded /\ ~Falsy(resume_data)) =>
        /\ call.error = None
        /\ \A u \in TokenBodies :
              OccursAt(call.pre, TopLevelAddrs(call.pre), Token(u))
                 => \E i \in 1..Len(call.log) : call.log[i].placeholder = u
        /\ call.result.total_replacements = SumCounts(call.log)
        /\ \A i \in 1..Len(call.log) :
              call.log[i].value = PyNone
                 => /\ call.log[i].count = 0
                    /\ ExactOccurrences(document.body, Token(call.log[i].placeholder))
                          = ExactOccurrences(call.pre, Token(call.log[i].placeholder))

(***************************************************************************)
(* add_paragraph and save_to_buffer, and a processor used for several      *)
(* calls in a row.                                                         *)
(***************************************************************************)
(* variant: the paragraph is added without looking at self.document *)
AddParagraph_Unguarded(doc, styles, text, style) ==
    [doc |-> [doc EXCEPT !.loaded = TRUE,
                         !.body = Append(@, Paragraph(<<NewRun(text)>>))],
     error |-> None]

(* add_paragraph(text, style): [doc, error]; styles is original_styles *)
(* variant: the new paragraph is put before the blocks of the document *)
AddParagraph_Prepends(doc, styles, text, style) ==
    IF ~doc.loaded THEN [doc |-> doc, error |-> "EditOperationError"]
    ELSE [doc |-> [doc EXCEPT !.body =
                     <<Paragraph(IF text = <<>> THEN <<>> ELSE <<NewRun(text)>>)>> \o @],
          error |-> None]

AddParagraph(doc, styles, text, style) ==
    IF ~doc.loaded THEN [doc |-> doc, error |-> "EditOperationError"]
    ELSE LET paragraph == Paragraph(IF text = <<>> THEN <<>> ELSE <<NewRun(text)>>)
         IN  [doc |-> [doc EXCEPT !.body =
                          Append(@, IF style \notin {None, ""} /\ style \in styles
                                    THEN [paragraph EXCEPT !.style = style]
                                    ELSE paragraph)],
              error |-> None]

(* save_to_buffer: [buffer, error]; the buffer holds the document's blocks *)
SaveToBuffer(doc) ==
    IF ~doc.loaded THEN [buffer |-> <<>>, error |-> "EditOperationError"]
    ELSE [buffer |-> doc.body, error |-> None]

(* the number of calls made on the processor so far *)
CallsMade == IF call.op = "none" THEN 0 ELSE call.seq

SessionBodies ==
    {<<Paragraph(<<NewRun(<<"a">>)>>)>>,
     <<[Paragraph(<<NewRun(<<"A">>)>>) EXCEPT !.style = "Heading 1"]>>,
     <<Paragraph(<<ApplyRunFormatting(NewRun(<<"a">>), StyledFormatting), NewRun(<<"A">>)>>),
       Table(<< << <<Paragraph(<<NewRun(<<"a">>)>>)>> >> >>)>>}

StyleArguments == {None, "", "Normal", "Heading 1"}

(* texts for a new paragraph, one of them a carriage return *)
ParagraphTexts == Texts(1) \cup {<<"\r">>}

(* load_from_buffer on any processor; an invalid buffer raises and leaves  *)
(* the processor as it was                                                 *)
CallLoadFromBuffer ==
    /\ CallsMade < MaxCalls
    /\ \/ \E body \in SessionBodies :
             /\ document' = [loaded |-> TRUE, body |-> body, styles |-> {"Normal"}]
             /\ original_styles' = ExtractStyles(body)
             /\ call' = [op |-> "load_from_buffer", seq |-> CallsMade + 1,
                         was_loaded |-> document.loaded, pre |-> document.body,
                         error |-> None]
       \/ /\ call' = [op |-> "load_from_buffer", seq |-> CallsMade + 1,
                      was_loaded |-> document.loaded, pre |-> document.body,
                      error |-> "InvalidDocxFileError"]
          /\ UNCHANGED <<document, original_styles>>
    /\ UNCHANGED resume_data

CallFindAndReplaceText ==
    /\ CallsMade < MaxCalls
    /\ \E search_text \in Texts(1), replace_text \in Texts(1),
          preserve_formatting \in BOOLEAN, case_sensitive \in BOOLEAN :
          \E r \in {FindAndReplaceText(document, search_text, replace_text,
                                       preserve_formatting, case_sensitive)} :
              /\ document' = [document EXCEPT !.body = r.body]
              /\ call' = [op |-> "find_and_replace_text", seq |-> CallsMade + 1,
                          was_loaded |-> document.loaded, pre |-> document.body,
                          error |-> r.error]
    /\ UNCHANGED <<original_styles, resume_data>>

CallAddParagraph ==
    /\ CallsMade < MaxCalls
    /\ \E text \in ParagraphTexts, style \in StyleArguments :
          \E r \in {AddParagraph(document, original_styles, text, style)} :
              /\ document' = r.doc
              /\ call' = [op |-> "add_paragraph", seq |-> CallsMade + 1,
                          was_loaded |-> document.loaded, pre |-> document.body,
                          error |-> r.error, text |-> text, style |-> style]
    /\ UNCHANGED <<original_styles, resume_data>>

CallSaveToBuffer ==
    /\ CallsMade < MaxCalls
    /\ \E r \in {SaveToBuffer(document)} :
          call' = [op |-> "save_to_buffer", seq |-> CallsMade + 1,
                   was_loaded |-> document.loaded, pre |-> document.body,
                   error |-> r.error]
    /\ UNCHANGED <<document, original_styles, resume_data>>

NextSession ==
    CallLoadFromBuffer \/ CallFindAndReplaceText \/ CallAddParagraph \/ CallSaveToBuffer

SpecSession == Init /\ [][NextSession]_vars

EditOperations == {"find_and_replace_text", "add_paragraph", "save_to_buffer"}

(***************************************************************************)
(* C13: on a processor with no document loaded, find_and_replace_text,     *)
(* add_paragraph and save_to_buffer each fail with EditOperationError and  *)
(* leave the processor as it was (no document, no styles), whatever calls  *)
(* were made before.                                                       *)
(***************************************************************************)
C13_NoDocumentLoaded ==
    (call.op \in EditOperations /\ ~call.was_loaded) =>
        /\ call.error = "EditOperationError"
        /\ document = NoDocument
        /\ original_styles = {}
        /\ resume_data = PyNone

(* the third call in a row that fails for want of a document *)
C13_Witness ==
    /\ call.op = "add_paragraph"
    /\ call.seq = MaxCalls
    /\ ~call.was_loaded
    /\ call.error = "EditOperationError"

(***************************************************************************)
(* C14: if processing one paragraph fails during a find_and_replace_text   *)
(* pass, the pass is not aborted: the failure is collected (the call does  *)
(* not raise) and every paragraph whose own processing does not fail ends  *)
(* in its substituted state.  Stated for a non-empty search text.          *)
(***************************************************************************)
C14_FailureCollected ==
    (IsReplaceCall /\ call.search_text # <<>>) =>
        /\ call.error = None
        /\ \A a \in ParagraphAddrs(call.pre) :
              \A r \in {ReplaceTextInParagraph(ParagraphAt(call.pre, a), call.search_text,
                                               call.replace_text, call.preserve_formatting,
                                               call.case_sensitive)} :
                  ~r.raised => ParagraphAt(document.body, a) = r.para

(***************************************************************************)
(* C15: one find_and_replace_text call processes every paragraph of the    *)
(* document exactly once, all top-level paragraphs first and then the      *)
(* paragraphs of each table by row, cell and position in the cell: the     *)
(* sequence of visits has no paragraph twice and misses none, and every    *)
(* paragraph ends as one application of the replacement leaves it, the     *)
(* returned count being the sum of the counts of those applications.       *)
(***************************************************************************)
VisitOrder(body) == DocumentParagraphs(body) \o TableParagraphs(body)

(* a before b in the order: top-level paragraphs first, then table by      *)
(* table, row by row, cell by cell, paragraph by paragraph                 *)
VisitedBefore(a, b) ==
    \/ a.r = 0 /\ b.r # 0
    \/ a.r = 0 /\ b.r = 0 /\ a.b < b.b
    \/ a.r # 0 /\ b.r # 0 /\
          (\/ a.b < b.b
           \/ a.b = b.b /\ a.r < b.r
           \/ a.b = b.b /\ a.r = b.r /\ a.c < b.c
           \/ a.b = b.b /\ a.r = b.r /\ a.c = b.c /\ a.k < b.k)

OnceReplaced(paragraph) ==
    ReplaceTextInParagraph(paragraph, call.search_text, call.replace_text,
                           call.preserve_formatting, call.case_sensitive)

RECURSIVE SumOnceCounts(_, _)
SumOnceCounts(body, addrs) ==
    IF addrs = {} THEN 0
    ELSE LET a == CHOOSE x \in addrs : TRUE
         IN  OnceReplaced(ParagraphAt(body, a)).count + SumOnceCounts(body, addrs \ {a})

C15_EveryParagraphOnce ==
    (IsReplaceCall /\ call.error = None) =>
        /\ {VisitOrder(call.pre)[i] : i \in 1..Len(VisitOrder(call.pre))}
              = ParagraphAddrs(call.pre)
        /\ \A i, j \in 1..Len(VisitOrder(call.pre)) :
              i < j => VisitedBefore(VisitOrder(call.pre)[i], VisitOrder(call.pre)[j])
        /\ \A a \in ParagraphAddrs(call.pre) :
              ParagraphAt(document.body, a) = OnceReplaced(ParagraphAt(call.pre, a)).para
        /\ call.result = SumOnceCounts(call.pre, ParagraphAddrs(call.pre))

(***************************************************************************)
(* _rebuild_paragraph_with_formatting on its own: a loaded one-paragraph   *)
(* document whose paragraph is rebuilt from a character map.               *)
(***************************************************************************)
MaxMapLen == 3

(* the entries _replace_with_formatting_preservation puts in a map: a      *)
(* character and the formatting extracted from a run                       *)
CharMaps ==
    SeqsUpTo({[char |-> ch, formatting |-> f] : ch \in Chars, f \in Formattings},
             MaxMapLen)

LoadRebuildDocument == LoadFromBuffer({<<p>> : p \in SmallParagraphs}, {{"Normal"}})

RebuildParagraph ==
    /\ document.loaded
    /\ call.op = "none"
    /\ \E char_to_run_map \in CharMaps :
          /\ document' = [document EXCEPT !.body =
                            <<RebuildParagraphWithFormatting(@[1], char_to_run_map)>>]
          /\ call' = [op |-> "_rebuild_paragraph_with_formatting",
                      char_to_run_map |-> char_to_run_map, pre |-> document.body]
    /\ UNCHANGED <<original_styles, resume_data>>

NextRebuild == LoadRebuildDocument \/ RebuildParagraph

SpecRebuild == Init /\ [][NextRebuild]_vars

IsRebuildCall == call.op = "_rebuild_paragraph_with_formatting"

MapText(char_to_run_map) == [i \in 1..Len(char_to_run_map) |-> char_to_run_map[i].char]

IsPlainReplace ==
    IsReplaceCall /\ ~call.preserve_formatting /\ call.search_text # <<>>

C17_PlainReplaceLiteral ==
    IsPlainReplace =>
        /\ call.error = None
        /\ \A a \in ParagraphAddrs(call.pre) :
              Occurrences(TextAt(call.pre, a), call.search_text, call.case_sensitive) >= 1
                 => ParagraphAt(document.body, a).runs =
                       <<NewRun(Substituted(TextAt(call.pre, a), call.search_text,
                                            call.replace_text, call.case_sensitive))>>

(***************************************************************************)
(* C18: the count find_and_replace_text returns does not depend on         *)
(* preserve_formatting: for the same document, search (non-empty),         *)
(* replace and case_sensitive, the call with the other value of            *)
(* preserve_formatting returns the same count, also when replace equals    *)
(* search.  Calls that raise are left aside.                               *)
(***************************************************************************)
OtherModeCall ==
    FindAndReplaceText([document EXCEPT !.body = call.pre], call.search_text,
                       call.replace_text, ~call.preserve_formatting, call.case_sensitive)

C18_CountSameInBothModes ==
    (IsReplaceCall /\ call.search_text # <<>> /\ call.error = None) =>
        \A other \in {OtherModeCall} :
            other.error = None => other.result = call.result

(***************************************************************************)
(* C19: when the (non-empty) search string occurs in no paragraph, under   *)
(* the case mode of the call, find_and_replace_text returns 0 without      *)
(* raising and every paragraph keeps its runs, texts and formatting.       *)
(***************************************************************************)
IsNotFoundCall ==
    /\ IsReplaceCall
    /\ call.search_text # <<>>
    /\ TotalOccurrences(call.pre, ParagraphAddrs(call.pre),
                        call.search_text, call.case_sensitive) = 0

C19_NotFoundIsNoOp ==
    IsNotFoundCall =>
        /\ call.error = None
        /\ call.result = 0
        /\ document.body = call.pre

(* a plain case-sensitive call whose search string misses a two-run        *)
(* paragraph by letter case only, the replacement being a lone backslash   *)
C19_Witness ==
    /\ IsNotFoundCall
    /\ call.case_sensitive
    /\ ~call.preserve_formatting
    /\ call.replace_text = <<"\\">>
    /\ call.result = 0
    /\ \E a \in ParagraphAddrs(call.pre) :
          /\ Len(ParagraphAt(call.pre, a).runs) = 2
          /\ Occurrences(TextAt(call.pre, a), call.search_text, FALSE) >= 1

(***************************************************************************)
(* Two requests served at the same time.  The handlers edit_docx and       *)
(* edit_resume each construct a processor, load the uploaded file into it, *)
(* run their operations and save.  Here every variable is a function of    *)
(* the request: document[p] and original_styles[p] are the attributes of   *)
(* the processor of request p, resume_data[p] its data tree and call[p]    *)
(* the local variables of the handler.  A step is one call of a processor  *)
(* method; the steps of the two requests interleave in any order.          *)
(***************************************************************************)
Requests == {1, 2}

MaxOperations == 2

(* variant: one processor, made once, serves every request *)
Processor_Shared(request) == 1

(* the processor a request works on: the one its handler constructed *)
Processor(request) == request

(* an optional text field that was not given; the handler tests the other  *)
(* text fields with `not`, to which an absent and an empty text are alike, *)
(* so those are written <<>> in both cases                                 *)
NoText == <<None>>

NoOperation ==
    [operation_type |-> "none", search_text |-> <<>>, replace_text |-> NoText,
     preserve_formatting |-> TRUE, case_sensitive |-> TRUE,
     new_text |-> <<>>, bookmark_name |-> <<>>, style_name |-> None]

RequestOperations ==
    {[NoOperation EXCEPT !.operation_type = "replace",
                         !.search_text = <<"a">>, !.replace_text = <<"A">>],
     [NoOperation EXCEPT !.operation_type = "replace",
                         !.search_text = <<"A">>, !.replace_text = <<"a", "a">>,
                         !.preserve_formatting = FALSE, !.case_sensitive = FALSE],
     [NoOperation EXCEPT !.operation_type = "add_paragraph", !.new_text = <<"a">>]}

RequestTemplates ==
    {<<TokenParagraph(BodyName)>>,
     <<TokenParagraph(BodyHighlights1), TokenParagraph(BodyName)>>}

RequestFields == {NameOnlyData, FullData}

NoRequest ==
    [endpoint |-> "none", pc |-> "start", file |-> <<>>, operations |-> <<>>,
     remaining |-> <<>>, fields |-> PyNone, operations_performed |-> 0, errors |-> <<>>,
     replacements_made |-> NoReplacements, output |-> <<>>, overlapped |-> FALSE]

(* the processor after load_from_buffer(file) *)
Loaded(file) == [loaded |-> TRUE, body |-> file, styles |-> {"Normal"}]

(* insert_text_at_bookmark: [success, error] *)
InsertTextAtBookmark(doc, bookmark_name, text) ==
    IF ~doc.loaded THEN [success |-> FALSE, error |-> "EditOperationError"]
    ELSE [success |-> FALSE, error |-> None]

(* variant: a replace that finds nothing leaves no trace *)
EditOperation_SilentNotFound(doc, styles, operation) ==
    IF operation.operation_type = "replace"
    THEN IF operation.search_text = <<>> \/ operation.replace_text = NoText
         THEN [doc |-> doc, performed |-> 0, errors |-> <<"requires">>]
         ELSE TheOne({
                IF r.error # None
                THEN [doc |-> [doc EXCEPT !.body = r.body], performed |-> 0,
                      errors |-> <<"failed">>]
                ELSE IF r.result > 0
                THEN [doc |-> [doc EXCEPT !.body = r.body], performed |-> 1,
                      errors |-> <<>>]
                ELSE [doc |-> [doc EXCEPT !.body = r.body], performed |-> 0,
                      errors |-> <<>>] :
                r \in {FindAndReplaceText(doc, operation.search_text,
                                          operation.replace_text,
                                          operation.preserve_formatting,
                                          operation.case_sensitive)}})
    ELSE IF operation.operation_type = "add_paragraph"
    THEN IF operation.new_text = <<>>
         THEN [doc |-> doc, performed |-> 0, errors |-> <<"requires">>]
         ELSE TheOne({
                IF r.error # None
                THEN [doc |-> doc, performed |-> 0, errors |-> <<"failed">>]
                ELSE [doc |-> r.doc, performed |-> 1, errors |-> <<>>] :
                r \in {AddParagraph(doc, styles, operation.new_text,
                                    operation.style_name)}})
    ELSE IF operation.operation_type = "insert"
    THEN IF operation.bookmark_name = <<>> \/ operation.new_text = <<>>
         THEN [doc |-> doc, performed |-> 0, errors |-> <<"requires">>]
         ELSE TheOne({
                IF r.error # None
                THEN [doc |-> doc, performed |-> 0, errors |-> <<"failed">>]
                ELSE IF r.success
                THEN [doc |-> doc, performed |-> 1, errors |-> <<>>]
                ELSE [doc |-> doc, performed |-> 0, errors |-> <<"not found">>] :
                r \in {InsertTextAtBookmark(doc, operation.bookmark_name,
                                            operation.new_text)}})
    ELSE [doc |-> doc, performed |-> 0, errors |-> <<"unknown">>]

(* one pass of the loop `for operation in edit_request.operations` of      *)
(* edit_docx: [doc, performed, errors]                                     *)
EditOperation(doc, styles, operation) ==
    IF operation.operation_type = "replace"
    THEN IF operation.search_text = <<>> \/ operation.replace_text = NoText
         THEN [doc |-> doc, performed |-> 0, errors |-> <<"requires">>]
         ELSE TheOne({
                IF r.error # None
                THEN [doc |-> [doc EXCEPT !.body = r.body], performed |-> 0,
                      errors |-> <<"failed">>]
                ELSE IF r.result > 0
                THEN [doc |-> [doc EXCEPT !.body = r.body], performed |-> 1,
                      errors |-> <<>>]
                ELSE [doc |-> [doc EXCEPT !.body = r.body], performed |-> 0,
                      errors |-> <<"not found">>] :
                r \in {FindAndReplaceText(doc, operation.search_text,
                                          operation.replace_text,
                                          operation.preserve_formatting,
                                          operation.case_sensitive)}})
    ELSE IF operation.operation_type = "add_paragraph"
    THEN IF operation.new_text = <<>>
         THEN [doc |-> doc, performed |-> 0, errors |-> <<"requires">>]
         ELSE TheOne({
                IF r.error # None
                THEN [doc |-> doc, performed |-> 0, errors |-> <<"failed">>]
                ELSE [doc |-> r.doc, performed |-> 1, errors |-> <<>>] :
                r \in {AddParagraph(doc, styles, operation.new_text,
                                    operation.style_name)}})
    ELSE IF operation.operation_type = "insert"
    THEN IF operation.bookmark_name = <<>> \/ operation.new_text = <<>>
         THEN [doc |-> doc, performed |-> 0, errors |-> <<"requires">>]
         ELSE TheOne({
                IF r.error # None
                THEN [doc |-> doc, performed |-> 0, errors |-> <<"failed">>]
                ELSE IF r.success
                THEN [doc |-> doc, performed |-> 1, errors |-> <<>>]
                ELSE [doc |-> doc, performed |-> 0, errors |-> <<"not found">>] :
                r \in {InsertTextAtBookmark(doc, operation.bookmark_name,
                                            operation.new_text)}})
    ELSE [doc |-> doc, performed |-> 0, errors |-> <<"unknown">>]

InitRequests ==
    /\ document = [p \in Requests |-> NoDocument]
    /\ original_styles = [p \in Requests |-> {}]
    /\ resume_data = [p \in Requests |-> PyNone]
    /\ call = [p \in Requests |-> NoRequest]

(* another request is between its first and its last step *)
OtherInFlight(p) ==
    \E q \in Requests \ {p} : call[q].pc \notin {"start", "done", "failed"}

(* edit_docx up to processor.load_from_buffer(file_buffer) *)
StartEditDocx(p) ==
    /\ call[p].pc = "start"
    /\ \E file \in SessionBodies, operations \in SeqsUpTo(RequestOperations, MaxOperations) :
          /\ document' = [document EXCEPT ![Processor(p)] = Loaded(file)]
          /\ original_styles' = [original_styles EXCEPT ![Processor(p)] = ExtractStyles(file)]
          /\ call' = [call EXCEPT ![p] =
                [NoRequest EXCEPT !.endpoint = "edit_docx",
                                  !.pc = IF operations = <<>> THEN "save" ELSE "operations",
                                  !.file = file, !.operations = operations,
                                  !.remaining = operations,
                                  !.overlapped = OtherInFlight(p)]]
    /\ UNCHANGED resume_data

(* edit_docx: the next operation of the request *)
PerformOperation(p) ==
    /\ call[p].pc = "operations"
    /\ \E r \in {EditOperation(document[Processor(p)], original_styles[Processor(p)],
                              Head(call[p].remaining))} :
          /\ document' = [document EXCEPT ![Processor(p)] = r.doc]
          /\ call' = [call EXCEPT ![p] =
                [@ EXCEPT !.remaining = Tail(@),
                          !.pc = IF Tail(call[p].remaining) = <<>> THEN "save"
                                 ELSE "operations",
                          !.operations_performed = @ + r.performed,
                          !.errors = @ \o r.errors,
                          !.overlapped = @ \/ OtherInFlight(p)]]
    /\ UNCHANGED <<original_styles, resume_data>>

(* edit_resume up to processor.load_from_buffer(file_buffer) *)
StartEditResume(p) ==
    /\ call[p].pc = "start"
    /\ \E file \in RequestTemplates, fields \in RequestFields :
          /\ document' = [document EXCEPT ![Processor(p)] = Loaded(file)]
          /\ original_styles' = [original_styles EXCEPT ![Processor(p)] = ExtractStyles(file)]
          /\ call' = [call EXCEPT ![p] =
                [NoRequest EXCEPT !.endpoint = "edit_resume", !.pc = "set_resume_data",
                                  !.file = file, !.fields = fields,
                                  !.overlapped = OtherInFlight(p)]]
    /\ UNCHANGED resume_data

(* edit_resume: processor.set_resume_data(fields) *)
EditResumeSetData(p) ==
    /\ call[p].pc = "set_resume_data"
    /\ resume_data' = [resume_data EXCEPT ![Processor(p)] = call[p].fields]
    /\ call' = [call EXCEPT ![p] =
          [@ EXCEPT !.pc = "apply", !.overlapped = @ \/ OtherInFlight(p)]]
    /\ UNCHANGED <<document, original_styles>>

(* edit_resume: processor.apply_json_template_replacement() *)
ApplyResumeData(p) ==
    /\ call[p].pc = "apply"
    /\ \E r \in {ApplyJsonTemplateReplacement(document[Processor(p)],
                                             resume_data[Processor(p)], <<>>)} :
          /\ document' = [document EXCEPT ![Processor(p)].body = r.body]
          /\ call' = [call EXCEPT ![p] =
                [@ EXCEPT !.pc = IF r.error # None THEN "failed" ELSE "save",
                          !.replacements_made = r.result,
                          !.overlapped = @ \/ OtherInFlight(p)]]
    /\ UNCHANGED <<original_styles, resume_data>>

(* both handlers: output_buffer = processor.save_to_buffer() *)
SaveRequest(p) ==
    /\ call[p].pc = "save"
    /\ \E r \in {SaveToBuffer(document[Processor(p)])} :
          call' = [call EXCEPT ![p] =
             [@ EXCEPT !.pc = IF r.error # None THEN "failed" ELSE "done",
                       !.output = r.buffer,
                       !.overlapped = @ \/ OtherInFlight(p)]]
    /\ UNCHANGED <<document, original_styles, resume_data>>

NextRequests ==
    \E p \in Requests :
        \/ StartEditDocx(p)
        \/ PerformOperation(p)
        \/ StartEditResume(p)
        \/ EditResumeSetData(p)
        \/ ApplyResumeData(p)
        \/ SaveRequest(p)

SpecRequests == InitRequests /\ [][NextRequests]_vars

(***************************************************************************)
(* What a request yields when it runs alone.                               *)
(***************************************************************************)
RECURSIVE AloneOperations(_, _, _, _, _)
AloneOperations(doc, styles, operations, performed, errors) ==
    IF operations = <<>>
    THEN [output |-> SaveToBuffer(doc).buffer, operations_performed |-> performed,
          errors |-> errors]
    ELSE TheOne({AloneOperations(r.doc, styles, Tail(operations),
                                 performed + r.performed, errors \o r.errors) :
                 r \in {EditOperation(doc, styles, Head(operations))}})

AloneEditDocx(file, operations) ==
    AloneOperations(Loaded(file), ExtractStyles(file), operations, 0, <<>>)

AloneEditResume(file, fields) ==
    TheOne({[output |-> r.body, replacements_made |-> r.result, error |-> r.error] :
            r \in {ApplyJsonTemplateReplacement(Loaded(file), fields, <<>>)}})

(***************************************************************************)
(* C20: two requests that each use their own processor, document and data  *)
(* tree do not interfere: however their steps interleave, the document a   *)
(* finished request returns and its counts are those of the request run    *)
(* alone.                                                                  *)
(***************************************************************************)
C20_RequestsDoNotInterfere ==
    \A p \in Requests :
        /\ (call[p].endpoint = "edit_docx" /\ call[p].pc = "done") =>
              \A alone \in {AloneEditDocx(call[p].file, call[p].operations)} :
                 /\ call[p].output = alone.output
                 /\ call[p].operations_performed = alone.operations_performed
                 /\ call[p].errors = alone.errors
        /\ (call[p].endpoint = "edit_resume" /\ call[p].pc \in {"done", "failed"}) =>
              \A alone \in {AloneEditResume(call[p].file, call[p].fields)} :
                 /\ call[p].replacements_made = alone.replacements_made
                 /\ call[p].pc = "done" <=> alone.error = None
                 /\ call[p].pc = "done" => call[p].output = alone.output

(* an edit_docx request and an edit_resume request, both finished, each    *)
(* having taken steps while the other was in flight, each having changed   *)
(* its document                                                            *)
C20_Witness ==
    \E p, q \in Requests :
        /\ call[p].endpoint = "edit_docx" /\ call[p].pc = "done"
        /\ call[q].endpoint = "edit_resume" /\ call[q].pc = "done"
        /\ call[p].overlapped /\ call[q].overlapped
        /\ call[p].operations_performed = MaxOperations
        /\ call[q].replacements_made.total_replacements >= 1
        /\ call[p].output # call[p].file
        /\ call[q].output # call[q].file

(***************************************************************************)
(* C21: in the map apply_json_template_replacement returns, the count of   *)
(* every processed token is added to exactly one category bucket, the one  *)
(* _categorize_placeholder names, and to total_replacements, so that       *)
(* total_replacements is the sum of the six category counts.               *)
(***************************************************************************)
Categories ==
    {"basic_fields", "contact_fields", "technical_skills",
     "professional_experience", "projects", "education"}

RECURSIVE SumCategories(_, _)
SumCategories(replacements_made, categories) ==
    IF categories = {} THEN 0
    ELSE LET c == CHOOSE x \in categories : TRUE
         IN  replacements_made[c] + SumCategories(replacements_made, categories \ {c})

(* the counts of the log entries whose token falls in a category *)
RECURSIVE SumCountsOf(_, _)
SumCountsOf(log, category) ==
    IF log = <<>> THEN 0
    ELSE (IF CategorizePlaceholder(Strip(Head(log).placeholder)) = category
          THEN Head(log).count ELSE 0) + SumCountsOf(Tail(log), category)

C21_CategoriesSumToTotal ==
    IsTemplateCall =>
        /\ \A i \in 1..Len(call.log) :
              CategorizePlaceholder(Strip(call.log[i].placeholder)) \in Categories
        /\ \A c \in Categories : call.result[c] = SumCountsOf(call.log, c)
        /\ call.result.total_replacements = SumCategories(call.result, Categories)

(* a call that replaced tokens of two categories *)
C21_Witness ==
    /\ IsTemplateCall
    /\ call.result.basic_fields >= 1
    /\ call.result.contact_fields >= 1
    /\ call.result.total_replacements >= 2

(***************************************************************************)
(* C22: add_paragraph on a loaded document adds exactly one top-level      *)
(* paragraph, which is the last block and has the given text, leaves every *)
(* block that was there unchanged, and gives the new paragraph the named   *)
(* style only if that style was recorded when the document was loaded.     *)
(***************************************************************************)
IsAddParagraphCall == call.op = "add_paragraph" /\ call.was_loaded

(* the style of the paragraph add_paragraph(text, style) makes *)
StyleGiven(style) ==
    IF style \notin {None, ""} /\ style \in original_styles THEN style ELSE "Normal"

AddedParagraphFrame ==
    /\ call.error = None
    /\ Len(document.body) = Len(call.pre) + 1
    /\ Len(DocumentParagraphs(document.body)) = Len(DocumentParagraphs(call.pre)) + 1
    /\ SubSeq(document.body, 1, Len(call.pre)) = call.pre
    /\ document.body[Len(document.body)].kind = "p"
    /\ document.body[Len(document.body)].style = StyleGiven(call.style)

C22_AddParagraphAppends ==
    IsAddParagraphCall =>
        /\ AddedParagraphFrame
        /\ ParagraphText(document.body[Len(document.body)]) = call.text

(* C22 as amended: the text of the new paragraph is the given text with    *)
(* every carriage return read back as a line feed.                         *)
C22_AddParagraphAppendsAmended ==
    IsAddParagraphCall =>
        /\ AddedParagraphFrame
        /\ ParagraphText(document.body[Len(document.body)]) = RunText(call.text)

(* a paragraph of a recorded style other than the default, holding a       *)
(* carriage return, added after a table                                    *)
C22_Witness ==
    /\ IsAddParagraphCall
    /\ call.error = None
    /\ call.text = <<"\r">>
    /\ call.style = "Heading 1"
    /\ document.body[Len(document.body)].style = "Heading 1"

(* a paragraph added after a table with a style that was not recorded *)
C22_WitnessUnrecorded ==
    /\ IsAddParagraphCall
    /\ call.pre[Len(call.pre)].kind = "tbl"
    /\ call.style = "Heading 1"
    /\ document.body[Len(document.body)].style = "Normal"

(***************************************************************************)
(* C23: in a formatting-preserving replace, processing the matches         *)
(* rightmost first gives what substituting all match spans of the original *)
(* text at once gives: every character outside the match spans keeps its   *)
(* character, its order and its formatting, and every span is replaced by  *)
(* the replacement text, be it shorter, longer or empty.                   *)
(***************************************************************************)
(* all spans of the original character map substituted at once, left to    *)
(* right; starts are the match starts in ascending order                   *)
RECURSIVE SubstitutedAtOnce(_, _, _, _, _)
SubstitutedAtOnce(map, i, starts, search_len, replace_text) ==
    IF i > Len(map) THEN <<>>
    ELSE IF starts # <<>> /\ Head(starts) = i
         THEN [k \in 1..Len(replace_text) |->
                  [char |-> replace_text[k], formatting |-> map[i].formatting]]
                \o SubstitutedAtOnce(map, i + search_len, Tail(starts),
                                     search_len, replace_text)
         ELSE <<map[i]>> \o SubstitutedAtOnce(map, i + 1, starts, search_len, replace_text)

(* one application of _replace_with_formatting_preservation to the         *)
(* paragraph the call found at an address                                  *)
PreservedAt(a) ==
    ReplaceWithFormattingPreservation(ParagraphAt(call.pre, a), call.search_text,
                                      call.replace_text, call.case_sensitive)

RECURSIVE Distinct(_)
Distinct(bodies) ==
    IF bodies = <<>> THEN <<>>
    ELSE <<Head(bodies)>> \o Distinct(SelectSeq(Tail(bodies), LAMBDA u : u # Head(bodies)))

(* the token is one that is expanded into bullet paragraphs by this call *)
ExpandedAsList(u) ==
    /\ HasListTerm(Lower(Strip(u)))
    /\ \E i \in 1..Len(call.log) :
          /\ call.log[i].placeholder = u
          /\ call.log[i].value.t = "list"
          /\ call.log[i].value.l # <<>>

HoldsToken(block, u) == block.kind = "p" /\ Contains(Token(u), ParagraphText(block))

C24_EachTokenOnce ==
    IsTemplateCall =>
        /\ [i \in 1..Len(call.log) |-> call.log[i].placeholder]
              = Distinct(FindPlaceholders(GetDocumentText([document EXCEPT !.body = call.pre])))
        /\ \A u \in TokenBodies : \A b1, b2 \in 1..Len(call.pre) :
              (/\ ExpandedAsList(u)
               /\ b1 < b2
               /\ HoldsToken(call.pre[b1], u)
               /\ HoldsToken(call.pre[b2], u))
                 => \E i \in 1..Len(document.body) : document.body[i] = call.pre[b2]

(***************************************************************************)
(* C25: find_and_replace_text returns for every document and every         *)
(* search/replace pair, also when the replacement text contains the search *)
(* text: the matches are those of each paragraph's original text and       *)
(* inserted replacement text is not scanned again within the call, so      *)
(* every paragraph ends as its original text with those matches replaced.  *)
(***************************************************************************)
ReplaceContainsSearch ==
    /\ IsReplaceCall
    /\ call.search_text # <<>>
    /\ IF call.case_sensitive
       THEN Contains(call.search_text, call.replace_text)
       ELSE Contains(Lower(call.search_text), Lower(call.replace_text))

C25_ReplacementNotRescanned ==
    ReplaceContainsSearch =>
        /\ call.error = None
        /\ call.result >= 0
        /\ \A a \in ParagraphAddrs(call.pre) :
              TextAt(document.body, a) =
                 Substituted(TextAt(call.pre, a), call.search_text,
                             call.replace_text, call.case_sensitive)

(***************************************************************************)
(* apply_professional_experience: the placeholder is replaced by the       *)
(* experiences as lines of text, then the multi-line bullet paragraphs are *)
(* split.                                                                  *)
(***************************************************************************)
KeyTitle ==
    <<"t", "i", "t", "l", "e">>

KeyLocation ==
    <<"l", "o", "c", "a", "t", "i", "o", "n">>

KeyDuration ==
    <<"d", "u", "r", "a", "t", "i", "o", "n">>

KeyHighlights ==
    <<"h", "i", "g", "h", "l", "i", "g", "h", "t", "s">>

(* dict.get(key, default) *)
DictGet(node, key, default) == IF HasKey(node, key) THEN GetItem(node, key) ELSE default

(* the items a `for` loop over a truthy value yields *)
IterItems(value) ==
    IF value.t = "list" THEN value.l
    ELSE IF value.t = "str" THEN [i \in 1..Len(value.s) |-> PyStr(<<value.s[i]>>)]
    ELSE [i \in 1..Len(value.d) |-> PyStr(value.d[i].k)]

(* the lines one experience adds to experience_content *)
ExperienceLines(exp) ==
    LET company_title == PyStrOf(DictGet(exp, KeyCompany, PyStr(<<>>))) \o <<" ", "-", " ">>
                            \o PyStrOf(DictGet(exp, KeyTitle, PyStr(<<>>)))
        location_duration == PyStrOf(DictGet(exp, KeyLocation, PyStr(<<>>))) \o <<" ", "|", " ">>
                                \o PyStrOf(DictGet(exp, KeyDuration, PyStr(<<>>)))
        highlights == DictGet(exp, KeyHighlights, PyList(<<>>))
        items == IterItems(highlights)
    IN  <<company_title, location_duration>>
          \o (IF Falsy(highlights) THEN <<>>
              ELSE [i \in 1..Len(items) |-> <<Bullet, " ">> \o PyStrOf(items[i])])
          \o << <<>> >>

ExperienceText(experiences) ==
    Strip(Join(Flatten([i \in 1..Len(experiences.l) |-> ExperienceLines(experiences.l[i])]),
               <<"\n">>))

(* apply_professional_experience; replaced is the body between the two steps *)
ApplyProfessionalExperience(doc, data, placeholder) ==
    IF Falsy(data) \/ ~HasKey(data, KeyProfessionalExperience)
    THEN [body |-> doc.body, replaced |-> doc.body, result |-> 0, error |-> None]
    ELSE IF GetItem(data, KeyProfessionalExperience).t # "list"
    THEN [body |-> doc.body, replaced |-> doc.body, result |-> 0, error |-> None]
    ELSE TheOne({
           IF r.error # None
           THEN [body |-> r.body, replaced |-> r.body, result |-> r.result, error |-> r.error]
           ELSE [body |-> IF r.result > 0
                          THEN ApplyBulletFormattingToDocument([doc EXCEPT !.body = r.body])
                          ELSE r.body,
                 replaced |-> r.body, result |-> r.result, error |-> None] :
           r \in {FindAndReplaceText(
                     doc, placeholder,
                     ExperienceText(GetItem(data, KeyProfessionalExperience)), TRUE, TRUE)}})

(* the experiences of one resume *)
MaxExperiences == 2

ExperiencePlaceholder ==
    <<"{", "{", "E", "}", "}">>

Experiences ==
    {PyDict(<<[k |-> KeyCompany, v |-> PyStr(<<"C">>)]>>),
     PyDict(<<[k |-> KeyCompany, v |-> PyStr(<<"C">>)],
              [k |-> KeyHighlights, v |-> PyList(<<PyStr(<<"x">>)>>)]>>),
     PyDict(<<[k |-> KeyTitle, v |-> PyStr(<<"T">>)],
              [k |-> KeyHighlights, v |-> PyList(<<PyStr(<<"x">>), PyStr(<<"y">>)>>)]>>)}

ExperienceData ==
    {PyDict(<<[k |-> KeyProfessionalExperience, v |-> PyList(exps)]>>) :
        exps \in SeqsUpTo(Experiences, MaxExperiences)}
      \cup {NameOnlyData,
            PyDict(<<[k |-> KeyProfessionalExperience, v |-> PyStr(<<"C">>)]>>)}

ExperienceBlocks ==
    {Paragraph(<<NewRun(ExperiencePlaceholder)>>), Paragraph(<<NewRun(<<"a">>)>>),
     Table(<< << <<Paragraph(<<NewRun(ExperiencePlaceholder)>>)>> >> >>)}

ExperienceBodies == SeqsUpTo(ExperienceBlocks, MaxBlocks) \ {<<>>}

LoadExperienceDocument == LoadFromBuffer(ExperienceBodies, {{"Normal"}, {"Normal", "List Paragraph"}})

SetExperienceData == SetResumeData(ExperienceData)

ApplyExperience ==
    /\ call.op = "none"
    /\ \E r \in {ApplyProfessionalExperience(document, resume_data, ExperiencePlaceholder)} :
          /\ document' = [document EXCEPT !.body = r.body]
          /\ call' = [op |-> "apply_professional_experience",
                      pre |-> document.body, replaced |-> r.replaced,
                      result |-> r.result, error |-> r.error]
    /\ UNCHANGED <<original_styles, resume_data>>

NextExperience == LoadExperienceDocument \/ SetExperienceData \/ ApplyExperience

SpecExperience == Init /\ [][NextExperience]_vars

(* the text of every top-level block, a table standing as one entry *)
BlockTexts(body) ==
    [b \in 1..Len(body) |-> IF body[b].kind = "p" THEN ParagraphText(body[b]) ELSE <<"table">>]

(* a paragraph _apply_bullet_formatting_to_document hands to the split *)
IsSplitParagraph(block) ==
    /\ block.kind = "p"
    /\ Contains(<<Bullet>>, Strip(ParagraphText(block)))
    /\ Contains(<<"\n">>, Strip(ParagraphText(block)))

(* the first line, then the non-empty later lines, each stripped *)
SplitLines(text) ==
    LET lines == Split(text, "\n")
        later == [i \in 1..(Len(lines) - 1) |-> Strip(lines[i + 1])]
    IN  <<Strip(lines[1])>> \o SelectSeq(later, LAMBDA line : line # <<>>)

SplitInPlace(body) ==
    Flatten([b \in 1..Len(body) |->
               IF IsSplitParagraph(body[b]) THEN SplitLines(ParagraphText(body[b]))
               ELSE <<BlockTexts(body)[b]>>])

HasEmptyLine(text) ==
    \E i \in 1..(Len(text) - 1) : text[i] = "\n" /\ text[i + 1] = "\n"

(***************************************************************************)
(* C26: when _split_paragraph_with_bullets splits a multi-line paragraph,  *)
(* its non-empty later lines become paragraphs that follow the original    *)
(* directly and in line order, also when the text has empty lines; no      *)
(* paragraph that was there before ends up between them.                   *)
(***************************************************************************)
C26_SplitLinesFollowOriginal ==
    (call.op = "apply_professional_experience" /\ call.result > 0) =>
        BlockTexts(document.body) = SplitInPlace(call.replaced)

(* the same for texts without an empty line *)
C26_SplitWithoutEmptyLines ==
    (/\ call.op = "apply_professional_experience"
     /\ call.result > 0
     /\ \A b \in 1..Len(call.replaced) :
           call.replaced[b].kind = "p" => ~HasEmptyLine(ParagraphText(call.replaced[b]))) =>
        BlockTexts(document.body) = SplitInPlace(call.replaced)

(***************************************************************************)
(* C27: apply_json_template_replacement changes only paragraphs that hold  *)
(* a placeholder token (and the bullet paragraphs it inserts): a top-level *)
(* paragraph without a token is in the document afterwards with the same   *)
(* runs, run formatting, style and layout.                                 *)
(***************************************************************************)
TokenFree(block) == block.kind = "p" /\ FindPlaceholders(ParagraphText(block)) = <<>>

C27_TokenFreeParagraphsKept ==
    (call.op = "apply_json_template_replacement" /\ call.error = None) =>
        \A b \in 1..Len(call.pre) :
            TokenFree(call.pre[b]) =>
                \E c \in 1..Len(document.body) : document.body[c] = call.pre[b]

(* the same for token-free paragraphs that do not start with a bullet *)
C27_PlainParagraphsKept ==
    (call.op = "apply_json_template_replacement" /\ call.error = None) =>
        \A b \in 1..Len(call.pre) :
            (/\ TokenFree(call.pre[b])
             /\ ~Contains(<<Bullet>>, ParagraphText(call.pre[b]))) =>
                \E c \in 1..Len(document.body) : document.body[c] = call.pre[b]

(***************************************************************************)
(* C28: _get_nested_value returns what _get_nested_json_value returns for  *)
(* the same tree and path, list-index segments included.                   *)
(***************************************************************************)
C28_NestedValueAgrees ==
    call.op = "_get_nested_value" =>
        call.result = GetNestedJsonValue(resume_data, call.path)

HasDigitSegment(path) == \E i \in 1..Len(Split(path, ".")) : IsDigit(Split(path, ".")[i])

(* the same for paths without an all-digit segment *)
C28_AgreesOnKeyPaths ==
    (call.op = "_get_nested_value" /\ ~HasDigitSegment(call.path)) =>
        call.result = GetNestedJsonValue(resume_data, call.path)

(***************************************************************************)
(* Reference: a text with every token that resolves to a value replaced,   *)
(* all at once, by the formatted value; tokens are found as the pattern    *)
(* \{\{([^}]+)\}\} finds them, from left to right.                         *)
(***************************************************************************)
RECURSIVE ExpandTokens(_, _, _, _)
ExpandTokens(text, i, data, all_mappings) ==
    IF i > Len(text) THEN <<>>
    ELSE LET close == IF i + 1 <= Len(text) /\ text[i] = "{" /\ text[i + 1] = "{"
                      THEN FirstClose(text, i + 2) ELSE 0
             is_token == close > i + 2 /\ close + 1 <= Len(text) /\ text[close + 1] = "}"
             placeholder == Slice(text, i + 2, close - 1)
             value == ResolvePlaceholder(data, all_mappings, placeholder).value
         IN  IF ~is_token
             THEN <<text[i]>> \o ExpandTokens(text, i + 1, data, all_mappings)
             ELSE (IF value = PyNone THEN Slice(text, i, close + 1)
                   ELSE FormatJsonValue(value, Strip(placeholder)))
                     \o ExpandTokens(text, close + 2, data, all_mappings)

(* the tokens of the document all resolve to a string or to nothing, and   *)
(* no two of them differ in letter case only                               *)
PlainTokensOnly(body, data, all_mappings) ==
    LET placeholders == FindPlaceholders(GetDocumentText([loaded |-> TRUE, body |-> body,
                                                          styles |-> {}]))
    IN  /\ \A i \in 1..Len(placeholders) :
              ResolvePlaceholder(data, all_mappings, placeholders[i]).value.t \in {"str", "none"}
        /\ \A i, j \in 1..Len(placeholders) :
              Lower(placeholders[i]) = Lower(placeholders[j]) => placeholders[i] = placeholders[j]

(***************************************************************************)
(* C29: within one apply_json_template_replacement call the text of an     *)
(* inserted value is not replaced by a later token: the document ends as   *)
(* the original with every occurrence of every resolvable token replaced   *)
(* by the token's own value, whatever the order of the tokens.  Stated for *)
(* the top-level paragraphs of documents whose tokens resolve to strings.  *)
(***************************************************************************)
C29_ValuesNotReplacedAgain ==
    (/\ call.op = "apply_json_template_replacement"
     /\ call.error = None
     /\ PlainTokensOnly(call.pre, resume_data, AllMappings(call.custom_mappings))) =>
        /\ Len(document.body) = Len(call.pre)
        /\ \A b \in 1..Len(call.pre) :
              call.pre[b].kind = "p" =>
                  ParagraphText(document.body[b]) =
                      ExpandTokens(ParagraphText(call.pre[b]), 1, resume_data,
                                   AllMappings(call.custom_mappings))

(***************************************************************************)
(* One edit_docx request, one step per pass of its operation loop.         *)
(* outcomes records, per handled operation, what the pass added to         *)
(* operations_performed and to errors.                                     *)
(***************************************************************************)
EditRequestOperations ==
    {[NoOperation EXCEPT !.operation_type = "replace",
                         !.search_text = <<"a">>, !.replace_text = <<"A">>],
     [NoOperation EXCEPT !.operation_type = "replace",
                         !.search_text = <<"a">>, !.replace_text = <<>>,
                         !.case_sensitive = FALSE],
     [NoOperation EXCEPT !.operation_type = "replace",
                         !.search_text = <<"a">>, !.replace_text = <<"\\">>,
                         !.preserve_formatting = FALSE, !.case_sensitive = FALSE],
     [NoOperation EXCEPT !.operation_type = "replace", !.replace_text = <<"A">>],
     [NoOperation EXCEPT !.operation_type = "replace", !.search_text = <<"a">>],
     [NoOperation EXCEPT !.operation_type = "add_paragraph", !.new_text = <<"a">>,
                         !.style_name = "Heading 1"],
     [NoOperation EXCEPT !.operation_type = "add_paragraph"],
     [NoOperation EXCEPT !.operation_type = "insert", !.bookmark_name = <<"b">>,
                         !.new_text = <<"a">>],
     [NoOperation EXCEPT !.operation_type = "insert", !.new_text = <<"a">>],
     [NoOperation EXCEPT !.operation_type = "delete"]}

(* edit_docx up to processor.load_from_buffer(file_buffer) *)
StartEdit ==
    /\ call.op = "none"
    /\ ~document.loaded
    /\ \E file \in SessionBodies, operations \in SeqsUpTo(EditRequestOperations, MaxOperations) :
          /\ document' = Loaded(file)
          /\ original_styles' = ExtractStyles(file)
          /\ call' = [op |-> "edit_docx",
                      pc |-> IF operations = <<>> THEN "save" ELSE "operations",
                      operations |-> operations, remaining |-> operations,
                      operations_performed |-> 0, errors |-> <<>>, outcomes |-> <<>>]
    /\ UNCHANGED resume_data

(* one pass of the loop *)
EditStep ==
    /\ call.op = "edit_docx"
    /\ call.pc = "operations"
    /\ \E r \in {EditOperation(document, original_styles, Head(call.remaining))} :
          /\ document' = r.doc
          /\ call' = [call EXCEPT
                !.remaining = Tail(@),
                !.pc = IF Tail(call.remaining) = <<>> THEN "save" ELSE "operations",
                !.operations_performed = @ + r.performed,
                !.errors = @ \o r.errors,
                !.outcomes = Append(@, [operation |-> Head(call.remaining),
                                        performed |-> r.performed,
                                        errors |-> Len(r.errors)])]
    /\ UNCHANGED <<original_styles, resume_data>>

(* save_to_buffer and the response *)
FinishEdit ==
    /\ call.op = "edit_docx"
    /\ call.pc = "save"
    /\ \E r \in {SaveToBuffer(document)} :
          call' = [call EXCEPT !.pc = IF r.error # None THEN "failed" ELSE "done"]
    /\ UNCHANGED <<document, original_styles, resume_data>>

NextEdit == StartEdit \/ EditStep \/ FinishEdit

SpecEdit == Init /\ [][NextEdit]_vars

(***************************************************************************)
(* C30: the loop of edit_docx handles the operations in list order, each   *)
(* operation gives exactly one outcome (operations_performed goes up by    *)
(* one, or one error is appended), an operation that fails does not keep   *)
(* the later ones from being handled, and after the loop                   *)
(* operations_performed + len(errors) is the number of operations.         *)
(***************************************************************************)
C30_OneOutcomePerOperation ==
    call.op = "edit_docx" =>
        /\ call.remaining = Slice(call.operations, Len(call.outcomes) + 1, Len(call.operations))
        /\ \A i \in 1..Len(call.outcomes) :
              /\ call.outcomes[i].operation = call.operations[i]
              /\ call.outcomes[i].performed + call.outcomes[i].errors = 1
        /\ call.operations_performed + Len(call.errors) = Len(call.outcomes)
        /\ (call.pc = "operations") <=> (call.remaining # <<>>)
        /\ call.pc \in {"save", "done"} =>
              call.operations_performed + Len(call.errors) = Len(call.operations)

(* a request whose first operation raised and whose second was performed *)
C30_Witness ==
    /\ call.op = "edit_docx"
    /\ call.pc = "done"
    /\ Len(call.operations) = MaxOperations
    /\ call.errors = <<"failed">>
    /\ call.outcomes[1].errors = 1
    /\ call.outcomes[MaxOperations].performed = 1

====
